---------------------------- MODULE Spec2Model ----------------------------
(***************************************************************************)
(* Handle-indirection and bulk-marshalling layer of mmg-wasm               *)
(* (src/src/mmg2d.c, src/src/mmg3d.c, src/src/mmgs.c).                     *)
(*                                                                         *)
(* The three wrappers are textually parallel; the model is written once    *)
(* and indexed by the variant v.  The MMG kernel is external: each kernel  *)
(* function is modelled by its interface (what it is handed, what it       *)
(* returns), its outcome chosen nondeterministically.  Native objects are  *)
(* identified by positive integers, never reused; NULL is 0.  A double is  *)
(* an integer here (a quality is counted in hundredths).                   *)
(***************************************************************************)
EXTENDS Integers, Sequences, FiniteSets, TLC

VARIABLES
    g_initialized,  \* [variant -> 0..1]             static int g_initialized*
    g_handles,      \* [variant -> [0..63 -> entry]] static HandleEntry g_handles*[MAX_HANDLES]
    initpc,         \* the init that has scanned the table and not yet called the
                    \* constructor: its variant and the local variable handle
    nctor,          \* number of constructor calls that allocated a native object
    live,           \* native objects allocated by the kernel and not destroyed
    ndestroy,       \* [native object -> number of times handed to Free_all]
    kmesh,          \* [live mesh -> the entity counts the kernel holds for it]
    ksol,           \* [live sol -> the field size and type the kernel holds for it]
    kverts,         \* [live mesh -> the vertex coordinates the kernel holds for it]
    heap,           \* addresses malloc has handed out and free has not taken back
    held,           \* addresses the caller was returned and has not yet released
    mem,            \* [buffer the last call returned -> what the call stored in it]
    gone,           \* pointers the caller gave to free_array and still has
    caller,         \* the embedder's bookkeeping: per variant the handles it owns,
                    \* those it freed and was not given again, and the instance
                    \* the constructor made for each handle it owns
    call,           \* the entry point last called, with its handle argument and
                    \* whether it was given an out_count that is not NULL
    ret,            \* its return value
    outp,           \* the out-parameters it wrote: a set of <<name, value>>
    trace           \* what it did, in order: kernel calls, malloc and free

tableVars == <<g_initialized, g_handles, initpc>>
kernelVars == <<nctor, live, ndestroy, kmesh, ksol, kverts>>
heapVars == <<heap, held, mem, gone>>
vars == <<g_initialized, g_handles, initpc, nctor, live, ndestroy, kmesh, ksol, kverts,
          heap, held, mem, gone, caller, call, ret, outp, trace>>

----------------------------------------------------------------------------
(* Program constants *)

MAX_HANDLES == 64
NULL == 0

(* Bounds of the model *)

\* the lifecycle specification stops constructing after MaxCtor constructor calls
MaxCtor == 2
\* the capacity specification allows MaxRefill constructions beyond MAX_HANDLES
MaxRefill == 1
\* the entry-point specification stops constructing after MaxOpsCtor calls
MaxOpsCtor == 2
\* number of cells of the C heap: malloc returns NULL when none is left
HeapCells == 4
\* entity counts handed to the kernel are built from MaxCount
MaxCount == 1
\* the marshalling specification lets the caller ask for a buffer while it
\* holds at most MaxHeld
MaxHeld == 1

Variants == {"mmg2d", "mmg3d", "mmgs"}
Slots == 0 .. (MAX_HANDLES - 1)
Addrs == 1 .. HeapCells

\* handle arguments tried by the caller: negative, low slots, the last slot,
\* the first value past the table
HandleArgs == {-1, 0, 1, MAX_HANDLES - 1, MAX_HANDLES}

----------------------------------------------------------------------------
(* The handle table *)

ZeroEntry == [mesh |-> NULL, sol |-> NULL, active |-> 0]

ZeroTable == [i \in Slots |-> ZeroEntry]

ensure_initialized_always(v) == ZeroTable

\* the test of the flag inverted
ensure_initialized_inverted(v) ==
    IF g_initialized[v] # 0 THEN ZeroTable ELSE g_handles[v]

\* ensure_initialized: the table as every entry point sees it after the call
ensure_initialized(v) ==
    IF g_initialized[v] = 0 THEN ZeroTable ELSE g_handles[v]

RECURSIVE ScanFree(_, _)
ScanFree(T, i) ==
    IF i >= MAX_HANDLES THEN -1
    ELSE IF T[i].active = 0 THEN i
    ELSE ScanFree(T, i + 1)

\* the scan started at slot 1
find_free_handle_fromOne(T) == ScanFree(T, 1)

\* no scan: slot 0 whatever its state
find_free_handle_zero(T) == 0

\* the scan from the top: the last inactive slot
find_free_handle_highest(T) ==
    IF \A i \in Slots : T[i].active # 0 THEN -1
    ELSE CHOOSE i \in Slots :
            T[i].active = 0 /\ \A j \in Slots : (j > i => T[j].active # 0)

\* find_free_handle on table T: the first inactive slot, -1 if none
find_free_handle(T) == ScanFree(T, 0)

\* no handle passes
validate_handle_never(T, handle) == 0

\* the range test alone
validate_handle_rangeOnly(T, handle) ==
    IF handle < 0 \/ handle >= MAX_HANDLES THEN 0 ELSE 1

\* validate_handle on table T
validate_handle(T, handle) ==
    IF handle < 0 \/ handle >= MAX_HANDLES THEN 0 ELSE T[handle].active

RECURSIVE CountFree(_, _)
CountFree(T, i) ==
    IF i >= MAX_HANDLES THEN 0
    ELSE (IF T[i].active = 0 THEN 1 ELSE 0) + CountFree(T, i + 1)

\* the loop started at slot 1
available_fromOne(T) == CountFree(T, 1)

\* the loop of get_available_handles on table T
available(T) == CountFree(T, 0)

\* the table write-back of an entry point: g_initialized set, the table as left
\* one table for the three variants
Stored_shared(v, T) ==
    /\ g_initialized' = [w \in Variants |-> 1]
    /\ g_handles' = [w \in Variants |-> T]

\* the table and flag of variant v as an entry point leaves them
Stored(v, T) ==
    /\ g_initialized' = [g_initialized EXCEPT ![v] = 1]
    /\ g_handles' = [g_handles EXCEPT ![v] = T]

\* the same in an entry point run from its first line to its return
Installed(v, T) ==
    /\ Stored(v, T)
    /\ UNCHANGED initpc

\* no init is between its scan and its constructor call
NoInit == [v |-> "none", handle |-> -1]

----------------------------------------------------------------------------
(* Events of one call, and the kernel's constructor and destructor *)

KCall(fn, mesh, sol, args, res) ==
    [ev |-> "kernel", fn |-> fn, mesh |-> mesh, sol |-> sol, args |-> args, res |-> res]

MallocEv(ptr, bytes) == [ev |-> "malloc", ptr |-> ptr, bytes |-> bytes]

FreeEv(ptr) == [ev |-> "free", ptr |-> ptr]

IsKernel(e) == e.ev = "kernel"
IsMalloc(e) == e.ev = "malloc"
IsFree(e) == e.ev = "free"

\* the kernel calls of a trace, in order
KernelCalls(tr) == SelectSeq(tr, IsKernel)

\* what MMG*_Init_mesh may hand back: its return value and whether it left
\* a mesh and a sol behind
CtorOutcomes == [result : {0, 1}, mesh : BOOLEAN, sol : BOOLEAN]

\* the documented behaviour: 1 with both objects, or 0 with none
CleanOutcomes == {[result |-> 1, mesh |-> TRUE, sol |-> TRUE],
                  [result |-> 0, mesh |-> FALSE, sol |-> FALSE]}

MeshOf(k) == 2 * k - 1
SolOf(k) == 2 * k

ZeroSizes == [np |-> 0, ne |-> 0, nprism |-> 0, nt |-> 0, nquad |-> 0, na |-> 0]
ZeroSolSize == [typEntity |-> 0, np |-> 0, typSol |-> 0]

Bump(f, objs) ==
    [o \in DOMAIN f |-> IF o \in objs THEN f[o] + 1 ELSE f[o]]

\* f with x mapped to val (x added to the domain when new); NULL is no object
Put(f, x, val) ==
    IF x = NULL THEN f
    ELSE [y \in (DOMAIN f) \cup {x} |-> IF y = x THEN val ELSE f[y]]

Drop(f, objs) == [y \in (DOMAIN f) \ objs |-> f[y]]

----------------------------------------------------------------------------
(* Lifecycle *)

\* the result alone
CtorFailed_resultOnly(result, mesh) == result # 1

\* the test of mmg*_init on what the constructor handed back
CtorFailed(result, mesh) == result # 1 \/ mesh = NULL

\* the slot left as it was
FreedEntry_kept(e) == e

\* what mmg*_free leaves in the slot it clears
FreedEntry(e) == [mesh |-> NULL, sol |-> NULL, active |-> 0]

\* mmg*_init from the call of the constructor on, handle being the slot the
\* scan of table T returned and the constructor answering o
Construct(v, o, T, handle) ==
    LET k == nctor + 1
        mesh == IF o.mesh THEN MeshOf(k) ELSE NULL
        sol == IF o.sol THEN SolOf(k) ELSE NULL
    IN  /\ nctor' = IF o.mesh \/ o.sol THEN k ELSE nctor
        /\ live' = live \cup ({mesh, sol} \ {NULL})
        /\ ndestroy' = [x \in 1 .. SolOf(nctor') |->
                           IF x \in DOMAIN ndestroy THEN ndestroy[x] ELSE 0]
        /\ kmesh' = Put(kmesh, mesh, ZeroSizes)
        /\ ksol' = Put(ksol, sol, ZeroSolSize)
        /\ kverts' = Put(kverts, mesh, <<>>)
        /\ IF CtorFailed(o.result, mesh)
           THEN /\ ret' = -1
                /\ trace' = <<KCall("Init_mesh", mesh, sol, <<>>, o.result)>>
                /\ Stored(v, T)
                /\ UNCHANGED caller
           ELSE /\ ret' = handle
                /\ trace' = <<KCall("Init_mesh", mesh, sol, <<>>, o.result),
                              KCall("Init_parameters", mesh, NULL, <<>>, 1)>>
                /\ Stored(v, [T EXCEPT ![handle] =
                       [mesh |-> mesh, sol |-> sol, active |-> 1]])
                /\ caller' = [caller EXCEPT
                       ![v].owned = @ \cup {handle},
                       ![v].stale = @ \ {handle},
                       ![v].inst = [h \in (DOMAIN @) \cup {handle} |->
                                      IF h = handle THEN <<mesh, sol>> ELSE @[h]]]

\* mmg*_init, the constructor answering o
mmg_init(v, o) ==
    LET T == ensure_initialized(v)
        handle == find_free_handle(T)
    IN  /\ call' = [fn |-> "init", v |-> v, handle |-> -1, oc |-> FALSE]
        /\ outp' = {}
        /\ UNCHANGED heapVars
        /\ IF handle < 0
           THEN /\ ret' = -1
                /\ trace' = <<>>
                /\ Installed(v, T)
                /\ UNCHANGED <<kernelVars, caller>>
           ELSE /\ Construct(v, o, T, handle)
                /\ UNCHANGED initpc

\* mmg*_init up to the line before the constructor call: find_free_handle
\* has returned a slot
mmg_init_scan(v) ==
    LET T == ensure_initialized(v)
        handle == find_free_handle(T)
    IN  /\ initpc = NoInit
        /\ handle >= 0
        /\ initpc' = [v |-> v, handle |-> handle]
        /\ Stored(v, T)
        /\ UNCHANGED <<kernelVars, heapVars, caller, call, ret, outp, trace>>

\* mmg*_init from there to its return
mmg_init_construct(v, o) ==
    /\ initpc # NoInit
    /\ initpc.v = v
    /\ call' = [fn |-> "init", v |-> v, handle |-> -1, oc |-> FALSE]
    /\ outp' = {}
    /\ UNCHANGED heapVars
    /\ Construct(v, o, g_handles[v], initpc.handle)
    /\ initpc' = NoInit

\* what the destruction answered
FreeReturn_kernel(d) == d

\* the return of free once the handle is accepted: 1, the answer of Free_all
\* is not read
FreeReturn(d) == 1

\* mmg*_free, Free_all answering d
mmg_free(v, handle, d) ==
    LET T == ensure_initialized(v)
    IN  /\ call' = [fn |-> "free", v |-> v, handle |-> handle, oc |-> FALSE]
        /\ outp' = {}
        /\ UNCHANGED heapVars
        /\ IF validate_handle(T, handle) = 0
           THEN /\ ret' = 0
                /\ trace' = <<>>
                /\ Installed(v, T)
                /\ UNCHANGED <<kernelVars, caller>>
           ELSE LET mesh == T[handle].mesh
                    sol == T[handle].sol
                IN  /\ trace' = <<KCall("Free_all", mesh, sol, <<>>, d)>>
                    /\ live' = live \ {mesh, sol}
                    /\ ndestroy' = Bump(ndestroy, {mesh, sol} \ {NULL})
                    /\ kmesh' = Drop(kmesh, {mesh})
                    /\ ksol' = Drop(ksol, {sol})
                    /\ kverts' = Drop(kverts, {mesh})
                    /\ Installed(v, [T EXCEPT ![handle] = FreedEntry(T[handle])])
                    /\ ret' = FreeReturn(d)
                    /\ caller' = [caller EXCEPT
                           ![v].owned = @ \ {handle},
                           ![v].stale = @ \cup {handle},
                           ![v].inst = Drop(@, {handle})]
                    /\ UNCHANGED nctor

\* mmg*_get_available_handles
mmg_get_available_handles(v) ==
    LET T == ensure_initialized(v)
    IN  /\ call' = [fn |-> "get_available_handles", v |-> v, handle |-> -1, oc |-> FALSE]
        /\ ret' = available(T)
        /\ outp' = {}
        /\ trace' = <<>>
        /\ Installed(v, T)
        /\ UNCHANGED <<kernelVars, heapVars, caller>>

\* mmg*_get_max_handles
mmg_get_max_handles(v) ==
    /\ call' = [fn |-> "get_max_handles", v |-> v, handle |-> -1, oc |-> FALSE]
    /\ ret' = MAX_HANDLES
    /\ outp' = {}
    /\ trace' = <<>>
    /\ UNCHANGED <<tableVars, kernelVars, heapVars, caller>>

----------------------------------------------------------------------------
(* The kernel as the wrappers see it *)

\* what the kernel holds for a mesh or a sol (an object it does not know has
\* no entities)
KSizes(mesh) == IF mesh \in DOMAIN kmesh THEN kmesh[mesh] ELSE ZeroSizes
KSolSize(sol) == IF sol \in DOMAIN ksol THEN ksol[sol] ELSE ZeroSolSize

KUpdate(f, x, val) == IF x \in DOMAIN f THEN [f EXCEPT ![x] = val] ELSE f

\* entity counts the caller declares, and the kernel may end up with
FullSizes(v) ==
    [np |-> MaxCount + 3,
     ne |-> IF v = "mmg3d" THEN MaxCount + 2 ELSE 0,
     nprism |-> 0,
     nt |-> MaxCount + 1,
     nquad |-> 0,
     na |-> IF v = "mmg3d" THEN 0 ELSE MaxCount]

VertexOnlySizes == [ZeroSizes EXCEPT !.np = MaxCount + 3]

SizeArgs(v) == {ZeroSizes, VertexOnlySizes, FullSizes(v)}

\* the positional arguments of Set_meshSize / Get_meshSize, per variant
SizeTuple(v, sz) ==
    IF v = "mmg2d" THEN <<sz.np, sz.nt, sz.nquad, sz.na>>
    ELSE IF v = "mmgs" THEN <<sz.np, sz.nt, sz.na>>
    ELSE <<sz.np, sz.ne, sz.nprism, sz.nt, sz.nquad, sz.na>>

SizeNames_swapped(v) ==
    IF v = "mmg2d" THEN <<"np", "nquad", "nt", "na">>
    ELSE IF v = "mmgs" THEN <<"np", "na", "nt">>
    ELSE <<"np", "nt", "nprism", "ne", "nquad", "na">>

\* the out-parameters of get_mesh_size, in the order of the kernel's
SizeNames(v) ==
    IF v = "mmg2d" THEN <<"np", "nt", "nquad", "na">>
    ELSE IF v = "mmgs" THEN <<"np", "nt", "na">>
    ELSE <<"np", "ne", "nprism", "nt", "nquad", "na">>

\* field declarations tried: typEntity 1 (vertex); typSol 1 scalar, 3 tensor
SolSizeArgs ==
    {[typEntity |-> 1, np |-> MaxCount + 3, typSol |-> 1],
     [typEntity |-> 1, np |-> MaxCount + 3, typSol |-> 3],
     [typEntity |-> 1, np |-> 0, typSol |-> 1]}

\* an array of C: a function on the offsets 0 .. len - 1
ZeroArray(len) == [i \in 0 .. (len - 1) |-> 0]

\* coordinates per vertex in the kernel of variant v
KernelDim(v) == IF v = "mmg2d" THEN 2 ELSE 3

\* the coordinates the kernel holds for a mesh (none for one it does not know)
KVerts(mesh) == IF mesh \in DOMAIN kverts THEN kverts[mesh] ELSE <<>>

\* the caller's array of coordinates, len doubles
CallerVertices(len) == [i \in 0 .. (len - 1) |-> 100 + i]

\* coordinates of the kernel's own making (a remeshed or loaded mesh)
KernelVertices(len) == [i \in 0 .. (len - 1) |-> 500 + i]

\* a kernel call that reports success or failure
KResults == {0, 1}

\* MMG5_SUCCESS, MMG5_LOWFAILURE, MMG5_STRONGFAILURE
RemeshCodes == {0, 1, 2}

\* the kernel's quality of element k of a mesh, in hundredths
KQuality(mesh, k) == 1 + ((7 * mesh + 13 * k) % 100)

\* caller-side arguments: coordinates, indices, a reference, a position,
\* buffers in the caller's memory, a path
Coords(v) == IF v = "mmg2d" THEN <<11, 12>> ELSE <<11, 12, 13>>
RefArg == 7
PosArgs == {1, 2}
FirstPos == 1
DataBuf == 201
RefBufs == {NULL, 202}
PathArg == 301
ParamArgs == {<<1, 5>>}

----------------------------------------------------------------------------
(* Entry points that validate the handle and forward to one kernel call *)

\* the mesh of the first slot, whatever the handle
Mesh_first(v, handle) == ensure_initialized(v)[0].mesh

\* g_handles[handle].mesh, g_handles[handle].sol
Mesh(v, handle) == ensure_initialized(v)[handle].mesh
Sol(v, handle) == ensure_initialized(v)[handle].sol

\* an invalid handle answered 1
Rejected_one(v, fn, handle, failret, outs) ==
    /\ validate_handle(ensure_initialized(v), handle) = 0
    /\ call' = [fn |-> fn, v |-> v, handle |-> handle, oc |-> FALSE]
    /\ ret' = 1
    /\ outp' = outs
    /\ trace' = <<>>
    /\ Installed(v, ensure_initialized(v))
    /\ UNCHANGED <<kernelVars, heapVars, caller>>

\* the invalid-handle return of an entry point
Rejected(v, fn, handle, failret, outs) ==
    /\ validate_handle(ensure_initialized(v), handle) = 0
    /\ call' = [fn |-> fn, v |-> v, handle |-> handle, oc |-> FALSE]
    /\ ret' = failret
    /\ outp' = outs
    /\ trace' = <<>>
    /\ Installed(v, ensure_initialized(v))
    /\ UNCHANGED <<kernelVars, heapVars, caller>>

\* the handle passed validation
Accepted(v, fn, handle) ==
    /\ validate_handle(ensure_initialized(v), handle) # 0
    /\ call' = [fn |-> fn, v |-> v, handle |-> handle, oc |-> FALSE]
    /\ Installed(v, ensure_initialized(v))
    /\ UNCHANGED caller

\* fail_with_count, and the same pattern written out in mmg3d.c
CountOut(oc, n) == IF oc THEN {<<"out_count", n>>} ELSE {}

\* the invalid-handle return of an entry point that returns a buffer:
\* fail_with_count
RejectedGet(v, fn, handle, oc) ==
    /\ validate_handle(ensure_initialized(v), handle) = 0
    /\ call' = [fn |-> fn, v |-> v, handle |-> handle, oc |-> oc]
    /\ ret' = NULL
    /\ outp' = CountOut(oc, 0)
    /\ trace' = <<>>
    /\ Installed(v, ensure_initialized(v))
    /\ UNCHANGED <<kernelVars, heapVars, caller>>

\* the handle passed validation, in an entry point that returns a buffer
AcceptedGet(v, fn, handle, oc) ==
    /\ validate_handle(ensure_initialized(v), handle) # 0
    /\ call' = [fn |-> fn, v |-> v, handle |-> handle, oc |-> oc]
    /\ Installed(v, ensure_initialized(v))
    /\ UNCHANGED caller

\* the handle passed validation, in an entry point given the arguments args
\* after the handle
AcceptedWith(v, fn, handle, args) ==
    /\ validate_handle(ensure_initialized(v), handle) # 0
    /\ call' = [fn |-> fn, v |-> v, handle |-> handle, oc |-> FALSE, args |-> args]
    /\ Installed(v, ensure_initialized(v))
    /\ UNCHANGED caller

\* the kernel is called again when it fails
Forward_retry(v, fn, handle, failret, kfn, useMesh, useSol, args, r) ==
    \/ Rejected(v, fn, handle, failret, {})
    \/ /\ AcceptedWith(v, fn, handle, args)
       /\ LET kcall == KCall(kfn,
                             IF useMesh THEN Mesh(v, handle) ELSE NULL,
                             IF useSol THEN Sol(v, handle) ELSE NULL,
                             args, r)
          IN  trace' = IF r = 1 THEN <<kcall>> ELSE <<kcall, kcall>>
       /\ ret' = r
       /\ outp' = {}

\* return KFN(mesh-or-NULL, sol-or-NULL, args), the kernel answering r
Forward(v, fn, handle, failret, kfn, useMesh, useSol, args, r) ==
    \/ Rejected(v, fn, handle, failret, {})
    \/ /\ AcceptedWith(v, fn, handle, args)
       /\ trace' = <<KCall(kfn,
                           IF useMesh THEN Mesh(v, handle) ELSE NULL,
                           IF useSol THEN Sol(v, handle) ELSE NULL,
                           args, r)>>
       /\ ret' = r
       /\ outp' = {}

NoKernelChange == UNCHANGED <<kernelVars, heapVars>>

\* mmg*_set_mesh_size
mmg_set_mesh_size(v, handle, sz, r) ==
    /\ Forward(v, "set_mesh_size", handle, 0, "Set_meshSize", TRUE, FALSE,
               SizeTuple(v, sz), r)
    /\ \/ /\ validate_handle(ensure_initialized(v), handle) = 0
       \/ /\ validate_handle(ensure_initialized(v), handle) # 0
          /\ kmesh' = IF r = 1 THEN KUpdate(kmesh, Mesh(v, handle), sz) ELSE kmesh
          /\ kverts' = IF r = 1
                       THEN KUpdate(kverts, Mesh(v, handle), ZeroArray(KernelDim(v) * sz.np))
                       ELSE kverts
          /\ UNCHANGED <<nctor, live, ndestroy, ksol, heapVars>>

\* whatever the kernel answered
WritesOuts_always(r) == TRUE

\* the out-parameters are written when the kernel's query answered 1
WritesOuts(r) == r = 1

\* mmg*_get_mesh_size; outs: the out-parameters that are not NULL
mmg_get_mesh_size(v, handle, outs, r) ==
    \/ Rejected(v, "get_mesh_size", handle, 0, {})
    \/ /\ AcceptedWith(v, "get_mesh_size", handle, outs)
       /\ LET mesh == Mesh(v, handle)
              names == SizeNames(v)
              vals == SizeTuple(v, KSizes(mesh))
          IN  /\ trace' = <<KCall("Get_meshSize", mesh, NULL, <<>>, r)>>
              /\ outp' = IF WritesOuts(r)
                         THEN {<<names[i], vals[i]>> :
                                  i \in {j \in 1 .. Len(names) : names[j] \in outs}}
                         ELSE {}
              /\ ret' = r
       /\ NoKernelChange

\* mmg*_set_vertex: the kernel stores the coordinates at position pos
mmg_set_vertex(v, handle, pos, r) ==
    /\ Forward(v, "set_vertex", handle, 0, "Set_vertex", TRUE, FALSE,
               Coords(v) \o <<RefArg, pos>>, r)
    /\ \/ /\ validate_handle(ensure_initialized(v), handle) = 0
       \/ /\ validate_handle(ensure_initialized(v), handle) # 0
          /\ LET mesh == Mesh(v, handle)
                 dim == KernelDim(v)
                 old == KVerts(mesh)
             IN  kverts' = IF r = 1 /\ pos <= KSizes(mesh).np
                           THEN KUpdate(kverts, mesh,
                                    [i \in DOMAIN old |->
                                        IF i \div dim = pos - 1
                                        THEN Coords(v)[(i % dim) + 1] ELSE old[i]])
                           ELSE kverts
          /\ UNCHANGED <<nctor, live, ndestroy, kmesh, ksol, heapVars>>

\* mmg*_set_vertices: the kernel copies the caller's array, KernelDim
\* doubles for each vertex it holds
mmg_set_vertices(v, handle, refs, r) ==
    /\ Forward(v, "set_vertices", handle, 0, "Set_vertices", TRUE, FALSE,
               <<DataBuf, refs>>, r)
    /\ \/ /\ validate_handle(ensure_initialized(v), handle) = 0
       \/ /\ validate_handle(ensure_initialized(v), handle) # 0
          /\ LET mesh == Mesh(v, handle)
             IN  kverts' = IF r = 1
                           THEN KUpdate(kverts, mesh,
                                    CallerVertices(KernelDim(v) * KSizes(mesh).np))
                           ELSE kverts
          /\ UNCHANGED <<nctor, live, ndestroy, kmesh, ksol, heapVars>>

\* mmg*_set_triangle
mmg_set_triangle(v, handle, pos, r) ==
    /\ Forward(v, "set_triangle", handle, 0, "Set_triangle", TRUE, FALSE,
               <<1, 2, 3, RefArg, pos>>, r)
    /\ NoKernelChange

\* mmg*_set_triangles
mmg_set_triangles(v, handle, refs, r) ==
    /\ Forward(v, "set_triangles", handle, 0, "Set_triangles", TRUE, FALSE,
               <<DataBuf, refs>>, r)
    /\ NoKernelChange

\* mmg2d_set_edge, mmgs_set_edge
mmg_set_edge(v, handle, pos, r) ==
    /\ v # "mmg3d"
    /\ Forward(v, "set_edge", handle, 0, "Set_edge", TRUE, FALSE,
               <<1, 2, RefArg, pos>>, r)
    /\ NoKernelChange

\* mmg2d_set_edges, mmgs_set_edges
mmg_set_edges(v, handle, refs, r) ==
    /\ v # "mmg3d"
    /\ Forward(v, "set_edges", handle, 0, "Set_edges", TRUE, FALSE,
               <<DataBuf, refs>>, r)
    /\ NoKernelChange

\* mmg3d_set_tetrahedron
mmg_set_tetrahedron(v, handle, pos, r) ==
    /\ v = "mmg3d"
    /\ Forward(v, "set_tetrahedron", handle, 0, "Set_tetrahedron", TRUE, FALSE,
               <<1, 2, 3, 4, RefArg, pos>>, r)
    /\ NoKernelChange

\* mmg3d_set_tetrahedra
mmg_set_tetrahedra(v, handle, refs, r) ==
    /\ v = "mmg3d"
    /\ Forward(v, "set_tetrahedra", handle, 0, "Set_tetrahedra", TRUE, FALSE,
               <<DataBuf, refs>>, r)
    /\ NoKernelChange

\* mmg*_set_iparameter
mmg_set_iparameter(v, handle, p, r) ==
    /\ Forward(v, "set_iparameter", handle, 0, "Set_iparameter", TRUE, TRUE, p, r)
    /\ NoKernelChange

\* mmg*_set_dparameter
mmg_set_dparameter(v, handle, p, r) ==
    /\ Forward(v, "set_dparameter", handle, 0, "Set_dparameter", TRUE, TRUE, p, r)
    /\ NoKernelChange

\* mmg*_set_sol_size
mmg_set_sol_size(v, handle, ss, r) ==
    /\ Forward(v, "set_sol_size", handle, 0, "Set_solSize", TRUE, TRUE,
               <<ss.typEntity, ss.np, ss.typSol>>, r)
    /\ \/ /\ validate_handle(ensure_initialized(v), handle) = 0
       \/ /\ validate_handle(ensure_initialized(v), handle) # 0
          /\ ksol' = IF r = 1 THEN KUpdate(ksol, Sol(v, handle), ss) ELSE ksol
          /\ UNCHANGED <<nctor, live, ndestroy, kmesh, kverts, heapVars>>

\* mmg*_get_sol_size; outs: the out-parameters that are not NULL
mmg_get_sol_size(v, handle, outs, r) ==
    \/ Rejected(v, "get_sol_size", handle, 0, {})
    \/ /\ AcceptedWith(v, "get_sol_size", handle, outs)
       /\ LET ss == KSolSize(Sol(v, handle))
          IN  /\ trace' = <<KCall("Get_solSize", Mesh(v, handle), Sol(v, handle), <<>>, r)>>
              /\ outp' = IF WritesOuts(r)
                         THEN {<<"typEntity", ss.typEntity>>, <<"np", ss.np>>,
                               <<"typSol", ss.typSol>>} \cap (outs \X Int)
                         ELSE {}
              /\ ret' = r
       /\ NoKernelChange

\* mmg*_set_scalar_sols
mmg_set_scalar_sols(v, handle, r) ==
    /\ Forward(v, "set_scalar_sols", handle, 0, "Set_scalarSols", FALSE, TRUE,
               <<DataBuf>>, r)
    /\ NoKernelChange

\* mmg*_set_tensor_sols
mmg_set_tensor_sols(v, handle, r) ==
    /\ Forward(v, "set_tensor_sols", handle, 0, "Set_tensorSols", FALSE, TRUE,
               <<DataBuf>>, r)
    /\ NoKernelChange

\* mmg*_remesh: the kernel's code is returned; a run that succeeds leaves
\* the mesh with counts of the kernel's choosing
RemeshFn(v) ==
    IF v = "mmg2d" THEN "mmg2dlib" ELSE IF v = "mmg3d" THEN "mmg3dlib" ELSE "mmgslib"

RemeshReturn_flag(code) == IF code = 0 THEN 1 ELSE 0

\* return MMG2D_mmg2dlib(mesh, sol)
RemeshReturn(code) == code

mmg_remesh(v, handle, code, sz) ==
    /\ \/ Rejected(v, "remesh", handle, -1, {})
       \/ /\ Accepted(v, "remesh", handle)
          /\ trace' = <<KCall(RemeshFn(v), Mesh(v, handle), Sol(v, handle), <<>>, code)>>
          /\ ret' = RemeshReturn(code)
          /\ outp' = {}
    /\ \/ /\ validate_handle(ensure_initialized(v), handle) = 0
       \/ /\ validate_handle(ensure_initialized(v), handle) # 0
          /\ kmesh' = IF code = 0 THEN KUpdate(kmesh, Mesh(v, handle), sz) ELSE kmesh
          /\ kverts' = IF code = 0
                       THEN KUpdate(kverts, Mesh(v, handle),
                                    KernelVertices(KernelDim(v) * sz.np))
                       ELSE kverts
          /\ UNCHANGED <<nctor, live, ndestroy, ksol, heapVars>>

\* mmg*_load_mesh
mmg_load_mesh(v, handle, r, sz) ==
    /\ Forward(v, "load_mesh", handle, 0, "loadMesh", TRUE, FALSE, <<PathArg>>, r)
    /\ \/ /\ validate_handle(ensure_initialized(v), handle) = 0
       \/ /\ validate_handle(ensure_initialized(v), handle) # 0
          /\ kmesh' = IF r = 1 THEN KUpdate(kmesh, Mesh(v, handle), sz) ELSE kmesh
          /\ kverts' = IF r = 1
                       THEN KUpdate(kverts, Mesh(v, handle),
                                    KernelVertices(KernelDim(v) * sz.np))
                       ELSE kverts
          /\ UNCHANGED <<nctor, live, ndestroy, ksol, heapVars>>

\* mmg*_save_mesh
mmg_save_mesh(v, handle, r) ==
    /\ Forward(v, "save_mesh", handle, 0, "saveMesh", TRUE, FALSE, <<PathArg>>, r)
    /\ NoKernelChange

\* mmg*_load_sol
mmg_load_sol(v, handle, r, ss) ==
    /\ Forward(v, "load_sol", handle, 0, "loadSol", TRUE, TRUE, <<PathArg>>, r)
    /\ \/ /\ validate_handle(ensure_initialized(v), handle) = 0
       \/ /\ validate_handle(ensure_initialized(v), handle) # 0
          /\ ksol' = IF r = 1 THEN KUpdate(ksol, Sol(v, handle), ss) ELSE ksol
          /\ UNCHANGED <<nctor, live, ndestroy, kmesh, kverts, heapVars>>

\* mmg*_save_sol
mmg_save_sol(v, handle, r) ==
    /\ Forward(v, "save_sol", handle, 0, "saveSol", TRUE, TRUE, <<PathArg>>, r)
    /\ NoKernelChange

\* the count the quality queries run over: triangles, tetrahedra in mmg3d
QualityCount(v, sz) == IF v = "mmg3d" THEN sz.ne ELSE sz.nt
QualityFn(v) == IF v = "mmg3d" THEN "Get_tetrahedronQuality" ELSE "Get_triangleQuality"

\* mmg2d_get_triangle_quality, mmgs_get_triangle_quality,
\* mmg3d_get_tetrahedron_quality
mmg_get_quality(v, handle, k) ==
    \/ /\ Rejected(v, "get_quality", handle, 0, {})
    \/ /\ Accepted(v, "get_quality", handle)
       /\ LET q == KQuality(Mesh(v, handle), k)
          IN  /\ trace' = <<KCall(QualityFn(v), Mesh(v, handle), Sol(v, handle), <<k>>, q)>>
              /\ ret' = q
       /\ outp' = {}
       /\ NoKernelChange

----------------------------------------------------------------------------
(* malloc and free *)

Min(S) == CHOOSE x \in S : \A y \in S : x <= y

Malloc_lowest(H, fails) == IF fails THEN NULL ELSE Min(Addrs)

\* malloc on heap H: an address not in use, NULL when it fails or none is left
Malloc(H, fails) ==
    IF fails \/ (Addrs \ H) = {} THEN NULL ELSE Min(Addrs \ H)

\* the largest int and MMG5_int (32 bits, signed)
INT_MAX == 2147483647

\* size_t is 32 bits wide: byte counts are taken modulo 2^32. Every element
\* size is 4 or 8, so that a byte count is a number of 4-byte words taken
\* modulo 2^30.
WordsModulus == 1073741824

\* half the width of a word count
HalfWord == 32768

\* (c * n) modulo 2^30 for a small factor c and a count n of 32 bits, by
\* halves so that no intermediate value leaves the 32-bit range
MulMod(c, n) ==
    LET m == n % WordsModulus
        h == m \div HalfWord
        l == m % HalfWord
    IN  (((c * h) % HalfWord) * HalfWord + c * l) % WordsModulus

\* the size (count) * sizeof(type) handed to malloc, count = stride * n, in
\* 4-byte words: the int stride * n converted to size_t and multiplied by
\* the element size modulo 2^32
SizeWords(stride, n, esize) == MulMod(stride * (esize \div 4), n)

\* stride * n does not fit an int: signed overflow, undefined
CountOverflows(stride, n) == n > INT_MAX \div stride

\* the sizes malloc may be handed: the one computed modulo 2^32, and when
\* stride * n overflows any size at all (the least, the greatest and the
\* size modulo 2^32 stand for all)
SizeWordsOutcomes(stride, n, esize) ==
    IF CountOverflows(stride, n)
    THEN {0, SizeWords(stride, n, esize), WordsModulus - 1}
    ELSE {SizeWords(stride, n, esize)}

\* the same size in bytes, for the sizes below 2^31
Bytes(stride, n, esize) == 4 * SizeWords(stride, n, esize)

\* ALLOC_OR_FAIL in sequence from buffer i on: the pointers obtained, ending
\* with the first NULL (goto cleanup)
RECURSIVE AllocOrFail(_, _, _, _)
AllocOrFail(H, nb, F, i) ==
    IF i > nb THEN <<>>
    ELSE LET p == Malloc(H, i \in F)
         IN  IF p = NULL THEN <<NULL>>
             ELSE <<p>> \o AllocOrFail(H \cup {p}, nb, F, i + 1)

\* mmg3d: the data buffer, return at once if NULL; then every side buffer,
\* tested together afterwards
RECURSIVE AllocEach(_, _, _, _)
AllocEach(H, nb, F, i) ==
    IF i > nb THEN <<>>
    ELSE LET p == Malloc(H, i \in F)
         IN  <<p>> \o AllocEach(H \cup ({p} \ {NULL}), nb, F, i + 1)

\* the side buffers are not allocated
AllocThenTest_dataOnly(H, nb, F) == <<Malloc(H, 1 \in F)>>

AllocThenTest(H, nb, F) ==
    LET p == Malloc(H, 1 \in F)
    IN  IF p = NULL THEN <<NULL>>
        ELSE <<p>> \o AllocEach(H \cup {p}, nb, F, 2)

\* the pointers of a bulk get, padded with the NULLs the variables still hold
Padded(ptrs, nb) == [i \in 1 .. nb |-> IF i <= Len(ptrs) THEN ptrs[i] ELSE NULL]

Range(q) == {q[i] : i \in DOMAIN q}

MallocEvents(ptrs, sizes) == [i \in 1 .. Len(ptrs) |-> MallocEv(ptrs[i], sizes[i])]

FreeEvents(ptrs) == [i \in 1 .. Len(ptrs) |-> FreeEv(ptrs[i])]

\* the addresses malloc returned, and those handed to free, in a trace
Allocated(tr) == {tr[i].ptr : i \in {j \in DOMAIN tr : IsMalloc(tr[j])}} \ {NULL}
Freed(tr) == {tr[i].ptr : i \in {j \in DOMAIN tr : IsFree(tr[j])}}

\* the heap after the mallocs and frees of a trace
HeapAfter(H, tr) == (H \cup Allocated(tr)) \ Freed(tr)

----------------------------------------------------------------------------
(* Bulk gets *)

\* all but the first two
SideBuffers_fromThird(all, nb) == SubSeq(all, 3, nb)

\* the buffers a bulk get releases when it succeeds: all but the first
SideBuffers(all, nb) == SubSeq(all, 2, nb)

\* the size query alone
NothingToGet_queryOnly(rs, n) == rs # 1

\* a buffer get returns at once when the size query fails or the count is 0
NothingToGet(rs, n) == rs # 1 \/ n = 0

\* all but the data buffer
CleanupBuffers_sidesOnly(all) == Tail(all)

\* the buffers released when an allocation failed: every pointer variable
\* (free(NULL) does nothing)
CleanupBuffers(all) == all

\* the side buffers alone
KernelFailedBuffers_sidesOnly(all, nb) == SideBuffers(all, nb)

\* the buffers released when the kernel's bulk get failed: the side buffers,
\* then the data buffer
KernelFailedBuffers(all, nb) == SideBuffers(all, nb) \o <<all[1]>>

\* the data buffer alone is tested
AllocationFailed_dataOnly(ptrs) == ptrs[1] = NULL

\* one of the buffers could not be allocated (the goto of ALLOC_OR_FAIL,
\* the joint test of mmg3d)
AllocationFailed(ptrs) == NULL \in Range(ptrs)

\* what the kernel's bulk get writes into the data buffer: the vertex
\* coordinates it holds; the contents of the other arrays are not followed
KernelArray(kfn, mesh, n) ==
    IF kfn = "Get_vertices" THEN KVerts(mesh) ELSE ZeroArray(n)

\* The run of a bulk get of entities once the handle is accepted, on heap H:
\* the size query answering rs, count n of the kind asked for, buffers of
\* the byte sizes given (the data buffer first), mallocs failing at the
\* positions F, the kernel's bulk get answering r. The events in order, the
\* pointer returned and the count for out_count.
BulkGetRun(v, mesh, kfn, n, sizes, H, F, rs, r) ==
    LET nb == Len(sizes)
        query == KCall("Get_meshSize", mesh, NULL, <<>>, rs)
        ptrs == IF v = "mmg3d" THEN AllocThenTest(H, nb, F)
                ELSE AllocOrFail(H, nb, F, 1)
        all == Padded(ptrs, nb)
        sides == SideBuffers(all, nb)
        mallocs == MallocEvents(ptrs, sizes)
    IN  IF NothingToGet(rs, n)
        THEN [trace |-> <<query>>, ret |-> NULL, count |-> 0]
        ELSE IF v = "mmg3d" /\ ptrs[1] = NULL
        THEN [trace |-> <<query>> \o mallocs, ret |-> NULL, count |-> 0]
        ELSE IF AllocationFailed(ptrs)
        THEN [trace |-> <<query>> \o mallocs \o FreeEvents(CleanupBuffers(all)),
              ret |-> NULL, count |-> 0]
        ELSE IF r # 1
        THEN [trace |-> <<query>> \o mallocs
                          \o <<KCall(kfn, mesh, NULL, all, r)>>
                          \o FreeEvents(KernelFailedBuffers(all, nb)),
              ret |-> NULL, count |-> 0]
        ELSE [trace |-> <<query>> \o mallocs
                          \o <<KCall(kfn, mesh, NULL, all, r)>>
                          \o FreeEvents(sides),
              ret |-> all[1], count |-> n]

\* The body of a bulk get: its run on the heap as it is, out_count not NULL
\* iff oc; the buffer returned is the caller's from then on.
BulkGetBody(v, handle, kfn, n, sizes, F, rs, r, oc) ==
    LET mesh == Mesh(v, handle)
        run == BulkGetRun(v, mesh, kfn, n, sizes, heap, F, rs, r)
    IN  /\ trace' = run.trace
        /\ ret' = run.ret
        /\ outp' = CountOut(oc, run.count)
        /\ held' = IF run.ret = NULL THEN held ELSE held \cup {run.ret}
        /\ heap' = HeapAfter(heap, trace')
        /\ gone' = gone \ Allocated(trace')
        /\ mem' = IF ret' = NULL THEN <<>>
                  ELSE Put(<<>>, ret', [bytes |-> sizes[1],
                                       data |-> KernelArray(kfn, mesh, n)])

BulkGet(v, fn, handle, kfn, n, sizes, F, rs, r, oc) ==
    \/ RejectedGet(v, fn, handle, oc)
    \/ /\ AcceptedGet(v, fn, handle, oc)
       /\ BulkGetBody(v, handle, kfn, n, sizes, F, rs, r, oc)
       /\ UNCHANGED kernelVars

VertexStride_two(v) == 2

\* doubles per vertex in the buffer of get_vertices
VertexStride(v) == IF v = "mmg2d" THEN 2 ELSE 3

\* doubles per vertex in the buffer of get_tensor_sols
TensorComps(v) == IF v = "mmg2d" THEN 3 ELSE 6

\* the buffers each getter allocates, the one it returns first: the elements
\* per entity and the size of an element, <<stride, sizeof(type)>> in
\* malloc(stride * n * sizeof(type))
BufferShapes(v, fn) ==
    CASE fn = "get_vertices" -> <<<<VertexStride(v), 8>>, <<1, 4>>, <<1, 4>>, <<1, 4>>>>
      [] fn = "get_triangles" -> <<<<3, 4>>, <<1, 4>>, <<1, 4>>>>
      [] fn = "get_edges" -> <<<<2, 4>>, <<1, 4>>, <<1, 4>>, <<1, 4>>>>
      [] fn = "get_tetrahedra" -> <<<<4, 4>>, <<1, 4>>, <<1, 4>>>>
      [] fn = "get_scalar_sols" -> <<<<1, 8>>>>
      [] fn = "get_tensor_sols" -> <<<<TensorComps(v), 8>>>>
      [] fn = "get_qualities" -> <<<<1, 8>>>>

\* the byte sizes of the buffers of getter fn for n entities
Sizes(v, fn, n) ==
    [i \in 1 .. Len(BufferShapes(v, fn)) |->
        Bytes(BufferShapes(v, fn)[i][1], n, BufferShapes(v, fn)[i][2])]

\* mmg*_get_vertices: vertices, refs, corners, required
mmg_get_vertices(v, handle, F, rs, r, oc) ==
    LET np == KSizes(Mesh(v, handle)).np
    IN  BulkGet(v, "get_vertices", handle, "Get_vertices", np,
                Sizes(v, "get_vertices", np), F, rs, r, oc)

\* mmg*_get_triangles: tria, refs, required
mmg_get_triangles(v, handle, F, rs, r, oc) ==
    LET nt == KSizes(Mesh(v, handle)).nt
    IN  BulkGet(v, "get_triangles", handle, "Get_triangles", nt,
                Sizes(v, "get_triangles", nt), F, rs, r, oc)

\* mmg2d_get_edges, mmgs_get_edges: edges, refs, ridges, required
mmg_get_edges(v, handle, F, rs, r, oc) ==
    LET na == KSizes(Mesh(v, handle)).na
    IN  /\ v # "mmg3d"
        /\ BulkGet(v, "get_edges", handle, "Get_edges", na,
                   Sizes(v, "get_edges", na), F, rs, r, oc)

\* mmg3d_get_tetrahedra: tetra, refs, required
mmg_get_tetrahedra(v, handle, F, rs, r, oc) ==
    LET ne == KSizes(Mesh(v, handle)).ne
    IN  /\ v = "mmg3d"
        /\ BulkGet(v, "get_tetrahedra", handle, "Get_tetrahedra", ne,
                   Sizes(v, "get_tetrahedra", ne), F, rs, r, oc)

\* any declared type will do
WrongType_never(typSol, typ) == FALSE

\* the declared field is not of the type the getter returns (typSol != 1 in
\* get_scalar_sols, typSol != 3 in get_tensor_sols)
WrongType(typSol, typ) == typSol # typ

\* The body of a field get: the size query answering rs, the field wanted of
\* type typ with comps doubles per vertex, one malloc, the kernel answering r.
FieldGetBody(v, handle, kfn, typ, comps, fails, rs, r, oc) ==
    LET mesh == Mesh(v, handle)
        sol == Sol(v, handle)
        ss == KSolSize(sol)
        query == KCall("Get_solSize", mesh, sol, <<>>, rs)
        p == Malloc(heap, fails)
        bytes == Sizes(v, IF typ = 1 THEN "get_scalar_sols" ELSE "get_tensor_sols",
                       ss.np)[1]
    IN  /\ IF NothingToGet(rs, ss.np) \/ WrongType(ss.typSol, typ)
           THEN /\ trace' = <<query>>
                /\ ret' = NULL
                /\ outp' = CountOut(oc, 0)
                /\ UNCHANGED held
           ELSE IF p = NULL
           THEN /\ trace' = <<query, MallocEv(p, bytes)>>
                /\ ret' = NULL
                /\ outp' = CountOut(oc, 0)
                /\ UNCHANGED held
           ELSE IF r # 1
           THEN /\ trace' = <<query, MallocEv(p, bytes),
                              KCall(kfn, NULL, sol, <<p>>, r), FreeEv(p)>>
                /\ ret' = NULL
                /\ outp' = CountOut(oc, 0)
                /\ UNCHANGED held
           ELSE /\ trace' = <<query, MallocEv(p, bytes), KCall(kfn, NULL, sol, <<p>>, r)>>
                /\ ret' = p
                /\ outp' = CountOut(oc, ss.np)
                /\ held' = held \cup {p}
        /\ heap' = HeapAfter(heap, trace')
        /\ gone' = gone \ Allocated(trace')
        /\ mem' = IF ret' = NULL THEN <<>>
                  ELSE Put(<<>>, ret', [bytes |-> bytes,
                                       data |-> ZeroArray(comps * ss.np)])

\* mmg*_get_scalar_sols
mmg_get_scalar_sols(v, handle, fails, rs, r, oc) ==
    \/ RejectedGet(v, "get_scalar_sols", handle, oc)
    \/ /\ AcceptedGet(v, "get_scalar_sols", handle, oc)
       /\ FieldGetBody(v, handle, "Get_scalarSols", 1, 1, fails, rs, r, oc)
       /\ UNCHANGED kernelVars

\* mmg*_get_tensor_sols
mmg_get_tensor_sols(v, handle, fails, rs, r, oc) ==
    \/ RejectedGet(v, "get_tensor_sols", handle, oc)
    \/ /\ AcceptedGet(v, "get_tensor_sols", handle, oc)
       /\ FieldGetBody(v, handle, "Get_tensorSols", 3, TensorComps(v), fails, rs, r, oc)
       /\ UNCHANGED kernelVars

QualityCalls_fromZero(v, handle, n) ==
    [k \in 1 .. n |->
        KCall(QualityFn(v), Mesh(v, handle), Sol(v, handle), <<k - 1>>,
              KQuality(Mesh(v, handle), k - 1))]

\* the quality calls of the loop for k = 1 .. n
QualityCalls(v, handle, n) ==
    [k \in 1 .. n |->
        KCall(QualityFn(v), Mesh(v, handle), Sol(v, handle), <<k>>,
              KQuality(Mesh(v, handle), k))]

\* qualities[k - 1] = the result of the call for k
QualityStore(v, handle, n) ==
    [i \in 0 .. (n - 1) |-> QualityCalls(v, handle, n)[i + 1].res]

\* mmg2d_get_triangles_qualities, mmgs_get_triangles_qualities,
\* mmg3d_get_tetrahedra_qualities
mmg_get_qualities(v, handle, fails, rs, oc) ==
    \/ RejectedGet(v, "get_qualities", handle, oc)
    \/ /\ AcceptedGet(v, "get_qualities", handle, oc)
       /\ LET mesh == Mesh(v, handle)
              n == QualityCount(v, KSizes(mesh))
              query == KCall("Get_meshSize", mesh, NULL, <<>>, rs)
              p == Malloc(heap, fails)
              bytes == Sizes(v, "get_qualities", n)[1]
          IN  IF NothingToGet(rs, n)
              THEN /\ trace' = <<query>>
                   /\ ret' = NULL
                   /\ outp' = CountOut(oc, 0)
                   /\ UNCHANGED held
              ELSE IF p = NULL
              THEN /\ trace' = <<query, MallocEv(p, bytes)>>
                   /\ ret' = NULL
                   /\ outp' = CountOut(oc, 0)
                   /\ UNCHANGED held
              ELSE /\ trace' = <<query, MallocEv(p, bytes)>> \o QualityCalls(v, handle, n)
                   /\ ret' = p
                   /\ outp' = CountOut(oc, n)
                   /\ held' = held \cup {p}
       /\ heap' = HeapAfter(heap, trace')
       /\ gone' = gone \ Allocated(trace')
       /\ mem' = IF ret' = NULL THEN <<>>
                 ELSE Put(<<>>, ret',
                          [bytes |-> Sizes(v, "get_qualities",
                                           QualityCount(v, KSizes(Mesh(v, handle))))[1],
                           data |-> QualityStore(v, handle,
                                        QualityCount(v, KSizes(Mesh(v, handle))))])
       /\ UNCHANGED kernelVars

FreesArg_liveOnly(ptr) == ptr \in heap

\* if (ptr)
FreesArg(ptr) == ptr # NULL

\* free(ptr) of libc on heap H: a block in use is taken back; for a pointer
\* that is not in use the behaviour is undefined: nothing visible happens, or
\* the allocator's bookkeeping is damaged and it takes a block in use for
\* free (a trap ends the behaviour)
FreeOutcomes(H, ptr) ==
    IF ptr \in H THEN {H \ {ptr}}
    ELSE {H} \cup {H \ {q} : q \in H}

\* mmg*_free_array
mmg_free_array(v, ptr) ==
    /\ call' = [fn |-> "free_array", v |-> v, handle |-> -1, oc |-> FALSE, ptr |-> ptr]
    /\ ret' = 0
    /\ outp' = {}
    /\ IF FreesArg(ptr)
       THEN /\ trace' = <<FreeEv(ptr)>>
            /\ heap' \in FreeOutcomes(heap, ptr)
            /\ held' = held \ {ptr}
            /\ gone' = gone \cup {ptr}
            /\ UNCHANGED mem
       ELSE /\ trace' = <<>>
            /\ UNCHANGED heapVars
    /\ UNCHANGED <<tableVars, kernelVars, caller>>

----------------------------------------------------------------------------
(* Specifications *)

\* no call on record
NoCall == [fn |-> "none", v |-> "none", handle |-> -1, oc |-> FALSE]

Init ==
    /\ g_initialized = [v \in Variants |-> 0]
    /\ initpc = NoInit
    /\ g_handles = [v \in Variants |-> ZeroTable]
    /\ nctor = 0
    /\ live = {}
    /\ ndestroy = <<>>
    /\ kmesh = <<>>
    /\ ksol = <<>>
    /\ kverts = <<>>
    /\ heap = {}
    /\ held = {}
    /\ mem = <<>>
    /\ gone = {}
    /\ caller = [v \in Variants |-> [owned |-> {}, stale |-> {}, inst |-> <<>>]]
    /\ call = NoCall
    /\ ret = 0
    /\ outp = {}
    /\ trace = <<>>

\* The caller makes one call at a time: it takes the result of a call, which
\* clears the record of that call, before it makes the next one.
Ready == call = NoCall

Return ==
    /\ call # NoCall
    /\ call' = NoCall
    /\ ret' = 0
    /\ outp' = {}
    /\ trace' = <<>>
    /\ mem' = <<>>
    /\ gone' = {}
    /\ UNCHANGED <<tableVars, kernelVars, heap, held, caller>>

\* The caller takes the result and keeps the pointers it has released.
ReturnStale ==
    /\ call # NoCall
    /\ call' = NoCall
    /\ ret' = 0
    /\ outp' = {}
    /\ trace' = <<>>
    /\ mem' = <<>>
    /\ UNCHANGED <<tableVars, kernelVars, heap, held, gone, caller>>

\* the constructor is reached only while the model's supply of constructions lasts
CanConstruct(v, cap) ==
    find_free_handle(ensure_initialized(v)) < 0 \/ nctor < cap

\* one variant per run: no other variant's table has been touched
Solo(v) == \A w \in Variants \ {v} : g_initialized[w] = 0

\* An entry point returns on an invalid handle before it reads any other
\* argument: one value of each stands for all.
For(v, h, S) ==
    IF validate_handle(ensure_initialized(v), h) = 0 THEN {CHOOSE x \in S : TRUE} ELSE S

\* Lifecycle of the three variants side by side, the constructor free to
\* answer anything.
Next ==
    \/ \E v \in Variants :
        \/ \E o \in CtorOutcomes : CanConstruct(v, MaxCtor) /\ Ready /\ mmg_init(v, o)
        \/ \E h \in HandleArgs : \E d \in For(v, h, KResults) :
              Ready /\ mmg_free(v, h, d)
        \/ Ready /\ mmg_get_available_handles(v)
        \/ Ready /\ mmg_get_max_handles(v)
    \/ Return

Spec == Init /\ [][Next]_vars

\* Capacity: one variant, a constructor that behaves as documented, enough
\* constructions to fill the table and go on; the caller starts freeing when
\* the table is about to fill.
NextFill ==
    \/ \E v \in Variants :
        \/ \E o \in CleanOutcomes :
              Solo(v) /\ CanConstruct(v, MAX_HANDLES + MaxRefill) /\ Ready /\ mmg_init(v, o)
        \/ \E h \in HandleArgs : \E d \in For(v, h, KResults) :
              Solo(v) /\ nctor + MaxRefill >= MAX_HANDLES /\ Ready /\ mmg_free(v, h, d)
        \/ Solo(v) /\ Ready /\ mmg_get_available_handles(v)
        \/ Solo(v) /\ Ready /\ mmg_get_max_handles(v)
    \/ Return

SpecFill == Init /\ [][NextFill]_vars

\* the constructor answers tried with the entry points: the documented ones
\* and a success that leaves no sol
OpsOutcomes == CleanOutcomes \cup {[result |-> 1, mesh |-> TRUE, sol |-> FALSE]}

\* handle arguments tried with the entry points: negative, every slot the
\* constructions can reach, the first value past the table
OpsHandles == (-1 .. (MaxOpsCtor - 1)) \cup {MAX_HANDLES}

\* the caller asks for another buffer while it holds at most MaxHeld
MayGet == Cardinality(held) <= MaxHeld

\* one instance at a time
NoneOwned(v) == caller[v].owned = {}

\* the caller releases a buffer before it calls anything else
Released == held = {}

MeshOuts == {{}, {"np"}, {"np", "ne", "nprism", "nt", "nquad", "na"}}
SolOuts == {{}, {"np"}, {"typEntity", "np", "typSol"}}

\* Every entry point of one variant, one instance at a time, on any handle
\* argument; the bulk gets with malloc succeeding.
NextOps ==
    \/ \E v \in Variants :
      \/ \E o \in OpsOutcomes :
            Solo(v) /\ NoneOwned(v) /\ CanConstruct(v, MaxOpsCtor) /\ Ready /\ mmg_init(v, o)
      \/ Solo(v) /\ Released /\ Ready /\ mmg_get_available_handles(v)
      \/ Solo(v) /\ Released /\ Ready /\ mmg_get_max_handles(v)
      \/ \E ptr \in held \cup {NULL} : Solo(v) /\ Ready /\ mmg_free_array(v, ptr)
      \/ \E h \in OpsHandles :
           \/ Solo(v) /\ Released /\ Ready /\ mmg_free(v, h, 1)
           \/ \E sz \in For(v, h, SizeArgs(v)), r \in For(v, h, KResults) :
                 Solo(v) /\ Released /\ Ready /\ mmg_set_mesh_size(v, h, sz, r)
           \/ \E outs \in For(v, h, MeshOuts), r \in For(v, h, KResults) :
                 Solo(v) /\ Released /\ Ready /\ mmg_get_mesh_size(v, h, outs, r)
           \/ \E r \in For(v, h, KResults) :
                 Solo(v) /\ Released /\ Ready /\ mmg_set_vertex(v, h, FirstPos, r)
           \/ \E refs \in For(v, h, RefBufs), r \in For(v, h, KResults) :
                 Solo(v) /\ Released /\ Ready /\ mmg_set_vertices(v, h, refs, r)
           \/ \E pos \in For(v, h, PosArgs), r \in For(v, h, KResults) :
                 Solo(v) /\ Released /\ Ready /\ mmg_set_triangle(v, h, pos, r)
           \/ \E refs \in For(v, h, RefBufs), r \in For(v, h, KResults) :
                 Solo(v) /\ Released /\ Ready /\ mmg_set_triangles(v, h, refs, r)
           \/ \E pos \in For(v, h, PosArgs), r \in For(v, h, KResults) :
                 Solo(v) /\ Released /\ Ready /\ mmg_set_edge(v, h, pos, r)
           \/ \E refs \in For(v, h, RefBufs), r \in For(v, h, KResults) :
                 Solo(v) /\ Released /\ Ready /\ mmg_set_edges(v, h, refs, r)
           \/ \E pos \in For(v, h, PosArgs), r \in For(v, h, KResults) :
                 Solo(v) /\ Released /\ Ready /\ mmg_set_tetrahedron(v, h, pos, r)
           \/ \E refs \in For(v, h, RefBufs), r \in For(v, h, KResults) :
                 Solo(v) /\ Released /\ Ready /\ mmg_set_tetrahedra(v, h, refs, r)
           \/ \E p \in ParamArgs, r \in For(v, h, KResults) :
                 Solo(v) /\ Released /\ Ready /\ mmg_set_iparameter(v, h, p, r)
           \/ \E p \in ParamArgs, r \in For(v, h, KResults) :
                 Solo(v) /\ Released /\ Ready /\ mmg_set_dparameter(v, h, p, r)
           \/ \E ss \in For(v, h, SolSizeArgs), r \in For(v, h, KResults) :
                 Solo(v) /\ Released /\ Ready /\ mmg_set_sol_size(v, h, ss, r)
           \/ \E outs \in For(v, h, SolOuts), r \in For(v, h, KResults) :
                 Solo(v) /\ Released /\ Ready /\ mmg_get_sol_size(v, h, outs, r)
           \/ \E r \in For(v, h, KResults) :
                 Solo(v) /\ Released /\ Ready /\ mmg_set_scalar_sols(v, h, r)
           \/ \E r \in For(v, h, KResults) :
                 Solo(v) /\ Released /\ Ready /\ mmg_set_tensor_sols(v, h, r)
           \/ \E code \in For(v, h, RemeshCodes), sz \in For(v, h, SizeArgs(v)) :
                 Solo(v) /\ Released /\ Ready /\ mmg_remesh(v, h, code, sz)
           \/ \E r \in For(v, h, KResults), sz \in For(v, h, SizeArgs(v)) :
                 Solo(v) /\ Released /\ Ready /\ mmg_load_mesh(v, h, r, sz)
           \/ \E r \in For(v, h, KResults) :
                 Solo(v) /\ Released /\ Ready /\ mmg_save_mesh(v, h, r)
           \/ \E r \in For(v, h, KResults), ss \in For(v, h, SolSizeArgs) :
                 Solo(v) /\ Released /\ Ready /\ mmg_load_sol(v, h, r, ss)
           \/ \E r \in For(v, h, KResults) :
                 Solo(v) /\ Released /\ Ready /\ mmg_save_sol(v, h, r)
           \/ \E k \in For(v, h, PosArgs) :
                 Solo(v) /\ Released /\ Ready /\ mmg_get_quality(v, h, k)
           \/ \E r \in For(v, h, KResults), oc \in BOOLEAN :
                 Solo(v) /\ Released /\ Ready /\ mmg_get_vertices(v, h, {}, 1, r, oc)
           \/ \E r \in For(v, h, KResults), oc \in BOOLEAN :
                 Solo(v) /\ Released /\ Ready /\ mmg_get_triangles(v, h, {}, 1, r, oc)
           \/ \E r \in For(v, h, KResults), oc \in BOOLEAN :
                 Solo(v) /\ Released /\ Ready /\ mmg_get_edges(v, h, {}, 1, r, oc)
           \/ \E r \in For(v, h, KResults), oc \in BOOLEAN :
                 Solo(v) /\ Released /\ Ready /\ mmg_get_tetrahedra(v, h, {}, 1, r, oc)
           \/ \E r \in For(v, h, KResults), oc \in BOOLEAN :
                 Solo(v) /\ Released /\ Ready /\ mmg_get_scalar_sols(v, h, FALSE, 1, r, oc)
           \/ \E r \in For(v, h, KResults), oc \in BOOLEAN :
                 Solo(v) /\ Released /\ Ready /\ mmg_get_tensor_sols(v, h, FALSE, 1, r, oc)
           \/ \E oc \in BOOLEAN :
                 Solo(v) /\ Released /\ Ready /\ mmg_get_qualities(v, h, FALSE, 1, oc)
    \/ Return

SpecOps == Init /\ [][NextOps]_vars

\* how a bulk get may go: the size query fails; the kernel's bulk get fails;
\* mallocs fail at the positions F (none, any one, the two last together)
FailSets == {{}, {1}, {2}, {3}, {4}, {3, 4}}

\* out_count is NULL in one run that succeeds
GetRuns ==
    {[F |-> f, rs |-> 1, r |-> 1, oc |-> TRUE] : f \in FailSets}
        \cup {[F |-> {}, rs |-> 0, r |-> 1, oc |-> TRUE],
              [F |-> {}, rs |-> 1, r |-> 0, oc |-> TRUE],
              [F |-> {}, rs |-> 1, r |-> 1, oc |-> FALSE]}

\* Marshalling: one variant, one instance at a time, entity counts and field
\* declared, the bulk gets in every way they may go, buffers released when
\* the caller chooses.
NextGet ==
    \/ \E v \in Variants :
      \/ \E o \in CleanOutcomes :
            Solo(v) /\ NoneOwned(v) /\ CanConstruct(v, MaxOpsCtor) /\ Ready /\ mmg_init(v, o)
      \/ \E ptr \in held \cup {NULL} : Solo(v) /\ Ready /\ mmg_free_array(v, ptr)
      \/ \E h \in OpsHandles :
           \/ Solo(v) /\ Ready /\ mmg_free(v, h, 1)
           \/ \E sz \in For(v, h, SizeArgs(v)) :
                 Solo(v) /\ Ready /\ mmg_set_mesh_size(v, h, sz, 1)
           \/ \E ss \in For(v, h, SolSizeArgs) :
                 Solo(v) /\ Ready /\ mmg_set_sol_size(v, h, ss, 1)
           \/ Solo(v) /\ Ready /\ mmg_set_vertices(v, h, NULL, 1)
           \/ \E code \in For(v, h, RemeshCodes) :
                 Solo(v) /\ Ready /\ mmg_remesh(v, h, code, FullSizes(v))
           \/ \E g \in For(v, h, GetRuns) :
                 Solo(v) /\ MayGet /\ Ready /\ mmg_get_vertices(v, h, g.F, g.rs, g.r, g.oc)
           \/ \E g \in For(v, h, GetRuns) :
                 Solo(v) /\ MayGet /\ Ready /\ mmg_get_triangles(v, h, g.F, g.rs, g.r, g.oc)
           \/ \E g \in For(v, h, GetRuns) :
                 Solo(v) /\ MayGet /\ Ready /\ mmg_get_edges(v, h, g.F, g.rs, g.r, g.oc)
           \/ \E g \in For(v, h, GetRuns) :
                 Solo(v) /\ MayGet /\ Ready /\ mmg_get_tetrahedra(v, h, g.F, g.rs, g.r, g.oc)
           \/ \E g \in For(v, h, GetRuns) :
                 Solo(v) /\ MayGet /\ Ready /\ mmg_get_scalar_sols(v, h, 1 \in g.F, g.rs, g.r, g.oc)
           \/ \E g \in For(v, h, GetRuns) :
                 Solo(v) /\ MayGet /\ Ready /\ mmg_get_tensor_sols(v, h, 1 \in g.F, g.rs, g.r, g.oc)
           \/ \E g \in For(v, h, GetRuns) :
                 Solo(v) /\ MayGet /\ Ready /\ mmg_get_qualities(v, h, 1 \in g.F, g.rs, g.oc)
    \/ Return

SpecGet == Init /\ [][NextGet]_vars

\* at most one instance when the constructor is called: two side by side
FewOwned(v) == Cardinality(caller[v].owned) <= 1

\* the two slots in use and one that is not
PairHandles == 0 .. 2

TensorField == [typEntity |-> 1, np |-> MaxCount + 3, typSol |-> 3]

SizeOuts == {"np", "nt", "typSol"}

\* Every entry point of one variant with two instances side by side, one
\* choice of arguments for each; the kernel accepts or refuses the size
\* declarations and the calls that leave its data alone, and refuses the
\* others.
NextPair ==
    \/ \E v \in Variants :
      \/ \E o \in CleanOutcomes :
            Solo(v) /\ FewOwned(v) /\ CanConstruct(v, MaxOpsCtor) /\ Ready /\ mmg_init(v, o)
      \/ Solo(v) /\ Released /\ Ready /\ mmg_get_available_handles(v)
      \/ Solo(v) /\ Released /\ Ready /\ mmg_get_max_handles(v)
      \/ \E ptr \in held \cup {NULL} : Solo(v) /\ Ready /\ mmg_free_array(v, ptr)
      \/ \E h \in PairHandles :
           \/ Solo(v) /\ Released /\ Ready /\ mmg_free(v, h, 1)
           \/ \E sz \in {FullSizes(v)}, r \in For(v, h, KResults) :
                 Solo(v) /\ Released /\ Ready /\ mmg_set_mesh_size(v, h, sz, r)
           \/ \E outs \in {SizeOuts}, r \in For(v, h, KResults) :
                 Solo(v) /\ Released /\ Ready /\ mmg_get_mesh_size(v, h, outs, r)
           \/ Solo(v) /\ Released /\ Ready /\ mmg_set_vertex(v, h, FirstPos, 0)
           \/ \E refs \in For(v, h, RefBufs) :
                 Solo(v) /\ Released /\ Ready /\ mmg_set_vertices(v, h, refs, 0)
           \/ \E pos \in For(v, h, PosArgs), r \in For(v, h, KResults) :
                 Solo(v) /\ Released /\ Ready /\ mmg_set_triangle(v, h, pos, r)
           \/ \E refs \in For(v, h, RefBufs), r \in For(v, h, KResults) :
                 Solo(v) /\ Released /\ Ready /\ mmg_set_triangles(v, h, refs, r)
           \/ \E pos \in For(v, h, PosArgs), r \in For(v, h, KResults) :
                 Solo(v) /\ Released /\ Ready /\ mmg_set_edge(v, h, pos, r)
           \/ \E refs \in For(v, h, RefBufs), r \in For(v, h, KResults) :
                 Solo(v) /\ Released /\ Ready /\ mmg_set_edges(v, h, refs, r)
           \/ \E pos \in For(v, h, PosArgs), r \in For(v, h, KResults) :
                 Solo(v) /\ Released /\ Ready /\ mmg_set_tetrahedron(v, h, pos, r)
           \/ \E refs \in For(v, h, RefBufs), r \in For(v, h, KResults) :
                 Solo(v) /\ Released /\ Ready /\ mmg_set_tetrahedra(v, h, refs, r)
           \/ \E p \in ParamArgs, r \in For(v, h, KResults) :
                 Solo(v) /\ Released /\ Ready /\ mmg_set_iparameter(v, h, p, r)
           \/ \E p \in ParamArgs, r \in For(v, h, KResults) :
                 Solo(v) /\ Released /\ Ready /\ mmg_set_dparameter(v, h, p, r)
           \/ \E ss \in {TensorField}, r \in For(v, h, KResults) :
                 Solo(v) /\ Released /\ Ready /\ mmg_set_sol_size(v, h, ss, r)
           \/ \E outs \in {SizeOuts}, r \in For(v, h, KResults) :
                 Solo(v) /\ Released /\ Ready /\ mmg_get_sol_size(v, h, outs, r)
           \/ \E r \in For(v, h, KResults) :
                 Solo(v) /\ Released /\ Ready /\ mmg_set_scalar_sols(v, h, r)
           \/ \E r \in For(v, h, KResults) :
                 Solo(v) /\ Released /\ Ready /\ mmg_set_tensor_sols(v, h, r)
           \/ \E code \in For(v, h, RemeshCodes \ {0}) :
                 Solo(v) /\ Released /\ Ready /\ mmg_remesh(v, h, code, FullSizes(v))
           \/ Solo(v) /\ Released /\ Ready /\ mmg_load_mesh(v, h, 0, FullSizes(v))
           \/ \E r \in For(v, h, KResults) :
                 Solo(v) /\ Released /\ Ready /\ mmg_save_mesh(v, h, r)
           \/ Solo(v) /\ Released /\ Ready /\ mmg_load_sol(v, h, 0, TensorField)
           \/ \E r \in For(v, h, KResults) :
                 Solo(v) /\ Released /\ Ready /\ mmg_save_sol(v, h, r)
           \/ \E k \in For(v, h, PosArgs) :
                 Solo(v) /\ Released /\ Ready /\ mmg_get_quality(v, h, k)
           \/ \E r \in For(v, h, KResults), oc \in {TRUE} :
                 Solo(v) /\ Released /\ Ready /\ mmg_get_vertices(v, h, {}, 1, r, oc)
           \/ \E r \in For(v, h, KResults), oc \in {TRUE} :
                 Solo(v) /\ Released /\ Ready /\ mmg_get_triangles(v, h, {}, 1, r, oc)
           \/ \E r \in For(v, h, KResults), oc \in {TRUE} :
                 Solo(v) /\ Released /\ Ready /\ mmg_get_edges(v, h, {}, 1, r, oc)
           \/ \E r \in For(v, h, KResults), oc \in {TRUE} :
                 Solo(v) /\ Released /\ Ready /\ mmg_get_tetrahedra(v, h, {}, 1, r, oc)
           \/ \E r \in For(v, h, KResults), oc \in {TRUE} :
                 Solo(v) /\ Released /\ Ready /\ mmg_get_scalar_sols(v, h, FALSE, 1, r, oc)
           \/ \E r \in For(v, h, KResults), oc \in {TRUE} :
                 Solo(v) /\ Released /\ Ready /\ mmg_get_tensor_sols(v, h, FALSE, 1, r, oc)
           \/ \E oc \in {TRUE} :
                 Solo(v) /\ Released /\ Ready /\ mmg_get_qualities(v, h, FALSE, 1, oc)
    \/ Return

SpecPair == Init /\ [][NextPair]_vars

\* Release of buffers by a caller that may pass free_array a pointer it has
\* already released: one variant, one instance, vertices and elements
\* declared, gets that succeed or fail, free_array of a buffer held, of a
\* stale pointer, of NULL.
NextFree ==
    \/ \E v \in Variants :
      \/ \E o \in CleanOutcomes :
            Solo(v) /\ NoneOwned(v) /\ CanConstruct(v, MaxOpsCtor) /\ Ready /\ mmg_init(v, o)
      \/ \E ptr \in held \cup gone \cup {NULL} : Solo(v) /\ Ready /\ mmg_free_array(v, ptr)
      \/ \E h \in OpsHandles :
           \/ Solo(v) /\ Ready /\ mmg_free(v, h, 1)
           \/ Solo(v) /\ Ready /\ mmg_set_mesh_size(v, h, FullSizes(v), 1)
           \/ \E g \in For(v, h, GetRuns) :
                 Solo(v) /\ MayGet /\ Ready /\ mmg_get_vertices(v, h, g.F, g.rs, g.r, g.oc)
           \/ \E g \in For(v, h, GetRuns) :
                 Solo(v) /\ MayGet /\ Ready /\ mmg_get_qualities(v, h, 1 \in g.F, g.rs, g.oc)
    \/ ReturnStale

SpecFree == Init /\ [][NextFree]_vars

\* Lifecycle with init in two steps, the scan and the rest: nothing else
\* runs between the two (one thread), the constructor free to answer anything.
NextInit ==
    \/ \E v \in Variants :
        \/ CanConstruct(v, MaxCtor) /\ Ready /\ mmg_init_scan(v)
        \/ \E o \in CtorOutcomes : mmg_init_construct(v, o)
        \/ \E h \in HandleArgs : initpc = NoInit /\ Ready /\ mmg_free(v, h, 1)
        \/ initpc = NoInit /\ Ready /\ mmg_get_available_handles(v)
    \/ initpc = NoInit /\ Return

SpecInit == Init /\ [][NextInit]_vars

\* the getters of each variant
GettersOf(v) ==
    {"get_vertices", "get_triangles", "get_scalar_sols", "get_tensor_sols",
     "get_qualities"}
        \cup (IF v = "mmg3d" THEN {"get_tetrahedra"} ELSE {"get_edges"})

\* counts the size query may report: small ones, the powers of two from
\* 2^26 on with their neighbours, the last count whose 48-fold fits 32 bits
\* and the next one, the largest int
ReportedCounts ==
    {1, MaxCount + 3, 67108864, 89478485, 89478486, 134217727, 134217728,
     178956970, 178956971, 268435455, 268435456, 268435457, 357913941,
     357913942, 536870911, 536870912, 715827882, 715827883, 1073741823,
     1073741824, INT_MAX}

\* a malloc whose size is followed in words: the pointer returned, the size
\* handed over, the stride, element size and count it was computed from
WordsMallocEv(ptr, w, stride, esize, n) ==
    [ev |-> "malloc", ptr |-> ptr, words |-> w,
     stride |-> stride, esize |-> esize, n |-> n]

\* malloc called for buffer i of getter fn when the size query reported n
\* entities: the size it is handed is w words
SizedMalloc(v, fn, i, n, w) ==
    LET shape == BufferShapes(v, fn)[i]
    IN  /\ fn \in GettersOf(v)
        /\ i \in 1 .. Len(BufferShapes(v, fn))
        /\ w \in SizeWordsOutcomes(shape[1], n, shape[2])
        /\ call' = [fn |-> fn, v |-> v, handle |-> 0, oc |-> FALSE, args |-> <<i, n>>]
        /\ trace' = <<WordsMallocEv(NULL, w, shape[1], shape[2], n)>>
        /\ ret' = NULL
        /\ outp' = {}
        /\ UNCHANGED <<tableVars, kernelVars, heapVars, caller>>

\* The size of every buffer of every getter, for the counts the kernel may
\* report up to the largest int.
NextSize ==
    \/ \E v \in Variants : \E fn \in GettersOf(v) :
       \E i \in 1 .. Len(BufferShapes(v, fn)) : \E n \in ReportedCounts :
       \E w \in SizeWordsOutcomes(BufferShapes(v, fn)[i][1], n, BufferShapes(v, fn)[i][2]) :
          Ready /\ SizedMalloc(v, fn, i, n, w)
    \/ Return

SpecSize == Init /\ [][NextSize]_vars

----------------------------------------------------------------------------
(* The loops, one iteration at a time *)

\* the call in progress is inside a loop, or between the scan of init and
\* its constructor call
InProgress == "pc" \in DOMAIN call

\* the call record inside a scan of the table: i the slot to test next,
\* count the free slots counted so far
ScanCall(fn, v, i, count) ==
    [fn |-> fn, v |-> v, handle |-> -1, oc |-> FALSE, pc |-> "scan", args |-> <<i, count>>]

\* mmg*_init enters find_free_handle: ensure_initialized, i = 0
find_free_handle_enter(v) ==
    /\ call' = ScanCall("init", v, 0, 0)
    /\ Installed(v, ensure_initialized(v))
    /\ UNCHANGED <<kernelVars, heapVars, caller, ret, outp, trace>>

\* one test of the loop of find_free_handle: past the table, return -1 and
\* mmg*_init returns -1; slot i inactive, return i to mmg*_init; else i++
find_free_handle_step(v) ==
    /\ InProgress
    /\ call.pc = "scan"
    /\ call.fn = "init"
    /\ call.v = v
    /\ LET i == call.args[1]
       IN  IF i >= MAX_HANDLES
           THEN /\ call' = [fn |-> "init", v |-> v, handle |-> -1, oc |-> FALSE]
                /\ ret' = -1
                /\ outp' = {}
                /\ trace' = <<>>
                /\ UNCHANGED initpc
           ELSE IF g_handles[v][i].active = 0
           THEN /\ call' = [call EXCEPT !.pc = "construct"]
                /\ initpc' = [v |-> v, handle |-> i]
                /\ UNCHANGED <<ret, outp, trace>>
           ELSE /\ call' = ScanCall("init", v, i + 1, 0)
                /\ UNCHANGED <<initpc, ret, outp, trace>>
    /\ UNCHANGED <<g_initialized, g_handles, kernelVars, heapVars, caller>>

\* mmg*_get_available_handles up to its loop: ensure_initialized, count = 0
get_available_handles_enter(v) ==
    /\ call' = ScanCall("get_available_handles", v, 0, 0)
    /\ Installed(v, ensure_initialized(v))
    /\ UNCHANGED <<kernelVars, heapVars, caller, ret, outp, trace>>

\* one test of its loop: past the table, return count; else count the slot
\* if it is inactive, i++
get_available_handles_step(v) ==
    /\ InProgress
    /\ call.pc = "scan"
    /\ call.fn = "get_available_handles"
    /\ call.v = v
    /\ LET i == call.args[1]
           count == call.args[2]
       IN  IF i >= MAX_HANDLES
           THEN /\ call' = [fn |-> "get_available_handles", v |-> v,
                            handle |-> -1, oc |-> FALSE]
                /\ ret' = count
                /\ outp' = {}
                /\ trace' = <<>>
           ELSE /\ call' = ScanCall("get_available_handles", v, i + 1,
                                    IF g_handles[v][i].active = 0 THEN count + 1 ELSE count)
                /\ UNCHANGED <<ret, outp, trace>>
    /\ UNCHANGED <<tableVars, kernelVars, heapVars, caller>>

\* the call record inside the loop of a bulk quality query: k the counter,
\* iters the iterations made, over whether the counter has overflowed,
\* p the buffer
LoopCall(v, handle, oc, k, iters, over, p) ==
    [fn |-> "get_qualities", v |-> v, handle |-> handle, oc |-> oc, pc |-> "loop",
     args |-> <<k, iters, over, p>>]

\* the count the size query of the call in progress reported
LoopCount == QualityCount(call.v, KSizes(Mesh(call.v, call.handle)))

\* a bulk quality query up to its loop: validation, size query, malloc, k = 1
get_qualities_enter(v, handle, fails, rs, oc) ==
    \/ RejectedGet(v, "get_qualities", handle, oc)
    \/ /\ validate_handle(ensure_initialized(v), handle) # 0
       /\ Installed(v, ensure_initialized(v))
       /\ UNCHANGED <<kernelVars, caller, held, mem>>
       /\ LET mesh == Mesh(v, handle)
              n == QualityCount(v, KSizes(mesh))
              query == KCall("Get_meshSize", mesh, NULL, <<>>, rs)
              p == Malloc(heap, fails)
              shape == BufferShapes(v, "get_qualities")[1]
              malloc == WordsMallocEv(p, SizeWords(shape[1], n, shape[2]),
                                      shape[1], shape[2], n)
          IN  IF NothingToGet(rs, n)
              THEN /\ call' = [fn |-> "get_qualities", v |-> v, handle |-> handle, oc |-> oc]
                   /\ trace' = <<query>>
                   /\ ret' = NULL
                   /\ outp' = CountOut(oc, 0)
                   /\ UNCHANGED <<heap, gone>>
              ELSE IF p = NULL
              THEN /\ call' = [fn |-> "get_qualities", v |-> v, handle |-> handle, oc |-> oc]
                   /\ trace' = <<query, malloc>>
                   /\ ret' = NULL
                   /\ outp' = CountOut(oc, 0)
                   /\ UNCHANGED <<heap, gone>>
              ELSE /\ call' = LoopCall(v, handle, oc, 1, 0, FALSE, p)
                   /\ trace' = <<query, malloc>>
                   /\ heap' = heap \cup {p}
                   /\ gone' = gone \ {p}
                   /\ UNCHANGED <<ret, outp>>

\* iterations of the loop are followed one by one from Near iterations
\* before the last
Near == 1

\* the iterations up to there, none of which can overflow the counter: the
\* kernel's quality call returns each time
quality_iterations(v) ==
    /\ InProgress
    /\ call.pc = "loop"
    /\ call.v = v
    /\ LET k == call.args[1]
           iters == call.args[2]
           over == call.args[3]
       IN  /\ k < LoopCount - Near
           /\ call' = LoopCall(v, call.handle, call.oc, LoopCount - Near,
                               IF over THEN iters ELSE iters + (LoopCount - Near - k),
                               over, call.args[4])
    /\ UNCHANGED <<tableVars, kernelVars, heapVars, caller, ret, outp, trace>>

\* the values k++ may leave in the counter: k + 1; at INT_MAX the addition
\* overflows and the counter may hold any int (the least, 0 and the
\* greatest stand for all)
Incremented(k) ==
    IF k < INT_MAX THEN {k + 1} ELSE {-INT_MAX - 1, 0, INT_MAX}

\* one iteration: k <= n, qualities[k - 1] = the kernel's quality, k++
quality_iteration(v) ==
    /\ InProgress
    /\ call.pc = "loop"
    /\ call.v = v
    /\ LET k == call.args[1]
           iters == call.args[2]
           over == call.args[3]
       IN  /\ k >= LoopCount - Near
           /\ k <= LoopCount
           /\ \E next \in Incremented(k) :
                 call' = LoopCall(v, call.handle, call.oc, next,
                                  IF over \/ iters = INT_MAX THEN iters ELSE iters + 1,
                                  over \/ k = INT_MAX, call.args[4])
    /\ UNCHANGED <<tableVars, kernelVars, heapVars, caller, ret, outp, trace>>

\* the loop ends: k > n (after an overflow of the counter the test may go
\* either way); out_count is written and the buffer returned
quality_return(v) ==
    /\ InProgress
    /\ call.pc = "loop"
    /\ call.v = v
    /\ call.args[1] > LoopCount \/ call.args[3]
    /\ call' = [fn |-> "get_qualities", v |-> v, handle |-> call.handle, oc |-> call.oc]
    /\ trace' = trace \o <<[ev |-> "loop", iters |-> call.args[2], over |-> call.args[3]]>>
    /\ ret' = call.args[4]
    /\ outp' = CountOut(call.oc, LoopCount)
    /\ held' = held \cup {call.args[4]}
    /\ UNCHANGED <<tableVars, kernelVars, heap, mem, gone, caller>>

\* element counts the kernel may hold, up to the largest
LoopCounts == {MaxCount + 1, MaxCount + 3, INT_MAX - 1, INT_MAX}

LoopSizes(v) ==
    {[FullSizes(v) EXCEPT !.nt = c, !.ne = IF v = "mmg3d" THEN c ELSE 0] : c \in LoopCounts}

\* the first instance of the variant is the only one
OneOwned(v) == caller[v].owned = {0}

\* a step of a call in progress
LoopStep ==
    \E v \in Variants :
        \/ find_free_handle_step(v)
        \/ \E o \in CleanOutcomes :
              InProgress /\ call.pc = "construct" /\ mmg_init_construct(v, o)
        \/ get_available_handles_step(v)
        \/ quality_iterations(v)
        \/ quality_iteration(v)
        \/ quality_return(v)

\* Termination: one variant, the table filled slot by slot, the scans and
\* the quality loop one test at a time, element counts up to the largest
\* int; a call in progress goes on until it returns.
NextLoop ==
    \/ \E v \in Variants :
        \/ Solo(v) /\ CanConstruct(v, MAX_HANDLES + MaxRefill) /\ Ready
              /\ find_free_handle_enter(v)
        \/ Solo(v) /\ Ready /\ get_available_handles_enter(v)
        \/ \E sz \in LoopSizes(v) :
              Solo(v) /\ OneOwned(v) /\ Ready /\ mmg_set_mesh_size(v, 0, sz, 1)
        \/ \E fails \in BOOLEAN :
              Solo(v) /\ OneOwned(v) /\ Released /\ Ready
                /\ get_qualities_enter(v, 0, fails, 1, TRUE)
        \/ \E ptr \in held : Solo(v) /\ Ready /\ mmg_free_array(v, ptr)
    \/ LoopStep
    \/ ~InProgress /\ Return

SpecLoop == Init /\ [][NextLoop]_vars /\ WF_vars(LoopStep)

----------------------------------------------------------------------------
(* Properties *)

\* the slots of variant v that are active
ActiveSlots(v) == {i \in Slots : g_handles[v][i].active # 0}

\* handle is not an active handle of variant v: negative, past the table, or
\* an inactive slot
NotActive(v, handle) ==
    handle < 0 \/ handle >= MAX_HANDLES \/ g_handles[v][handle].active = 0

\* the record of a call of an entry point that takes a handle
HandleFns ==
    {"free", "set_mesh_size", "get_mesh_size", "set_vertex", "set_vertices",
     "set_triangle", "set_triangles", "set_edge", "set_edges",
     "set_tetrahedron", "set_tetrahedra", "set_iparameter", "set_dparameter",
     "set_sol_size", "get_sol_size", "set_scalar_sols", "set_tensor_sols",
     "remesh", "load_mesh", "save_mesh", "load_sol", "save_sol", "get_quality",
     "get_vertices", "get_triangles", "get_edges", "get_tetrahedra",
     "get_scalar_sols", "get_tensor_sols", "get_qualities"}

\* the entry points that return a buffer and a count
BufferFns ==
    {"get_vertices", "get_triangles", "get_edges", "get_tetrahedra",
     "get_scalar_sols", "get_tensor_sols", "get_qualities"}

\* the failure value of an entry point that takes a handle: -1 for remesh,
\* 0 / NULL / 0.0 for the others
FailureValue(fn) == IF fn = "remesh" THEN -1 ELSE 0

\* C1: for each variant, in every state reached by init / free calls, the
\* number of active slots is in 0 .. MAX_HANDLES, the count of
\* get_available_handles is in 0 .. MAX_HANDLES and adds up with the number
\* of active slots to what get_max_handles returns; a call of either returns
\* just that.
C1_HandleCountConservation ==
    /\ \A v \in Variants :
          /\ Cardinality(ActiveSlots(v)) \in 0 .. MAX_HANDLES
          /\ available(g_handles[v]) \in 0 .. MAX_HANDLES
          /\ available(g_handles[v]) + Cardinality(ActiveSlots(v)) = MAX_HANDLES
    /\ call.fn = "get_available_handles" =>
          /\ ret \in 0 .. MAX_HANDLES
          /\ ret + Cardinality(ActiveSlots(call.v)) = MAX_HANDLES
    /\ call.fn = "get_max_handles" => ret = MAX_HANDLES

\* C1 witness: get_available_handles has just returned on a table that is
\* neither empty nor full.
C1_Witness ==
    /\ call.fn = "get_available_handles"
    /\ ret = 1
    /\ Cardinality(ActiveSlots(call.v)) = MAX_HANDLES - 1
    /\ caller[call.v].stale # {}

\* C2 (step): an entry point called with a handle that init returned and
\* no free has released since treats it as valid (it reaches the kernel); called
\* with a handle that a free returning 1 released and no init has returned
\* since, it treats it as invalid (failure value, no kernel call).
C2_Step ==
    call'.fn \in HandleFns =>
        /\ call'.handle \in caller[call'.v].owned =>
              KernelCalls(trace') # <<>>
        /\ call'.handle \in caller[call'.v].stale =>
              /\ KernelCalls(trace') = <<>>
              /\ ret' = FailureValue(call'.fn)

C2_ValidFromInitToFree == [][C2_Step]_vars

\* C2 witness: a handle that was freed and issued again is in use, and an
\* entry point other than free has just been served on it.
C2_Witness ==
    /\ call.fn \in HandleFns \ {"free"}
    /\ call.handle \in caller[call.v].owned
    /\ KernelCalls(trace) # <<>>
    /\ \E x \in DOMAIN ndestroy : ndestroy[x] > 0

\* C3: in every reachable state, every slot of every table is active iff its
\* mesh is not NULL, and its mesh is NULL iff its sol is NULL, whatever the
\* constructor handed back with a result of 1.
C3_SlotConsistent ==
    \A v \in Variants : \A i \in Slots :
        /\ g_handles[v][i].active # 0 <=> g_handles[v][i].mesh # NULL
        /\ g_handles[v][i].mesh # NULL <=> g_handles[v][i].sol # NULL

\* C4 (step): an entry point that takes a handle, called with a handle that is
\* not active, returns its failure value, calls nothing in the kernel and
\* leaves the handle tables as they were.
C4_Step ==
    (call'.fn \in HandleFns /\ NotActive(call'.v, call'.handle)) =>
        /\ ret' = FailureValue(call'.fn)
        /\ KernelCalls(trace') = <<>>
        /\ g_handles' = g_handles

\* C4 (out_count): a bulk get called with a handle that is not active and an
\* out_count that is not NULL writes 0 to it, and writes nothing else.
C4_CountStep ==
    (call'.fn \in BufferFns /\ NotActive(call'.v, call'.handle)) =>
        LET v == call'.v
            h == call'.handle
        IN  \A oc \in BOOLEAN :
                (\/ mmg_get_vertices(v, h, {}, 1, 1, oc)
                 \/ mmg_get_triangles(v, h, {}, 1, 1, oc)
                 \/ mmg_get_edges(v, h, {}, 1, 1, oc)
                 \/ mmg_get_tetrahedra(v, h, {}, 1, 1, oc)
                 \/ mmg_get_scalar_sols(v, h, FALSE, 1, 1, oc)
                 \/ mmg_get_tensor_sols(v, h, FALSE, 1, 1, oc)
                 \/ mmg_get_qualities(v, h, FALSE, 1, oc))
                => outp' = (IF oc THEN {<<"out_count", 0>>} ELSE {})

C4_InvalidHandleRejected == [][C4_Step /\ C4_CountStep]_vars

\* C4 witness: remesh has just been refused on a handle that was freed.
C4_Witness ==
    /\ call.fn = "remesh"
    /\ call.handle \in caller[call.v].stale
    /\ ret = -1
    /\ trace = <<>>

\* no instance has been destroyed so far
NoFreeYet == \A x \in DOMAIN ndestroy : ndestroy[x] = 0

\* the first call of the trace is the constructor, and it failed
ConstructionFailed(tr) ==
    /\ tr # <<>>
    /\ tr[1].fn = "Init_mesh"
    /\ (tr[1].res # 1 \/ tr[1].mesh = NULL)

\* C5 (step): while nothing has been freed, an init whose construction
\* succeeds returns a slot number no earlier init returned, as long as fewer
\* than MAX_HANDLES were returned; once MAX_HANDLES were returned,
\* get_available_handles reads 0 and init returns -1 without changing the
\* table.
C5_Step ==
    (call'.fn = "init" /\ NoFreeYet) =>
        LET v == call'.v
            n == Cardinality(caller[v].owned)
        IN  IF n < MAX_HANDLES
            THEN \/ ret' \in Slots \ caller[v].owned
                 \/ ConstructionFailed(trace')
            ELSE /\ available(g_handles[v]) = 0
                 /\ ret' = -1
                 /\ trace' = <<>>
                 /\ g_handles' = g_handles

\* C5 (state): the call of get_available_handles made when MAX_HANDLES
\* handles are out returns 0.
C5_AvailableReadsZero ==
    (/\ call.fn = "get_available_handles"
     /\ Cardinality(caller[call.v].owned) = MAX_HANDLES) => ret = 0

C5_CapacityExhaustion == [][C5_Step]_vars /\ []C5_AvailableReadsZero

\* C5 witness: MAX_HANDLES handles are out, nothing was freed, and init has
\* just returned -1.
C5_Witness ==
    /\ call.fn = "init"
    /\ ret = -1
    /\ trace = <<>>
    /\ NoFreeYet
    /\ caller[call.v].owned = Slots

\* C6 (step): an init whose constructor does not return 1, or hands back no
\* mesh, returns -1 and consumes no slot: every slot of the table, and the
\* count of get_available_handles, are as before the call.
C6_Step ==
    (call'.fn = "init" /\ ConstructionFailed(KernelCalls(trace'))) =>
        /\ ret' = -1
        /\ g_handles' = g_handles
        /\ available(g_handles'[call'.v]) = available(g_handles[call'.v])

C6_FailedConstructionTakesNoSlot == [][C6_Step]_vars

\* C6 witness: the constructor has just returned 1 without a mesh and init
\* returned -1.
C6_Witness ==
    /\ call.fn = "init"
    /\ ret = -1
    /\ Len(trace) = 1
    /\ trace[1].res = 1
    /\ trace[1].mesh = NULL

\* C7 (step): free on an active handle calls Free_all once, on the mesh and
\* sol of that slot, and nothing else in the kernel, clears the slot and
\* returns 1; free on a handle that is not active, a freed one in particular,
\* returns 0, calls nothing and changes no slot.
C7_Step ==
    call'.fn = "free" =>
        LET v == call'.v
            h == call'.handle
        IN  /\ IF NotActive(v, h)
               THEN /\ ret' = 0
                    /\ trace' = <<>>
                    /\ g_handles' = g_handles
               ELSE /\ ret' = 1
                    /\ Len(trace') = 1
                    /\ trace' = <<KCall("Free_all", g_handles[v][h].mesh,
                                        g_handles[v][h].sol, <<>>, trace'[1].res)>>
                    /\ g_handles'[v][h] = [mesh |-> NULL, sol |-> NULL, active |-> 0]
            /\ h \in caller[v].stale => (ret' = 0 /\ trace' = <<>>)

\* C7 (state): no native object has been handed to Free_all twice.
C7_DestroyedAtMostOnce == \A x \in DOMAIN ndestroy : ndestroy[x] <= 1

C7_FreeDestroysOnce == [][C7_Step]_vars /\ []C7_DestroyedAtMostOnce

\* C7 witness: a free of a handle already freed has just returned 0.
C7_Witness ==
    /\ call.fn = "free"
    /\ call.handle \in caller[call.v].stale
    /\ ret = 0
    /\ \E x \in DOMAIN ndestroy : ndestroy[x] = 1

\* C8 (step): no kernel call of any entry point is handed a mesh or a sol that
\* was destroyed before the call, and every kernel call made through a handle
\* the caller owns is handed the mesh and sol the constructor made in the
\* last init that returned that handle (or NULL where the kernel function
\* takes none).
C8_Step ==
    call'.fn # "none" =>
        \A i \in DOMAIN trace' :
            IsKernel(trace'[i]) =>
                /\ \A x \in {trace'[i].mesh, trace'[i].sol} \ {NULL} :
                      x \in DOMAIN ndestroy => ndestroy[x] = 0
                /\ (call'.fn \in HandleFns
                      /\ call'.handle \in caller[call'.v].owned) =>
                      /\ trace'[i].mesh \in {NULL, caller[call'.v].inst[call'.handle][1]}
                      /\ trace'[i].sol \in {NULL, caller[call'.v].inst[call'.handle][2]}

C8_NoDestroyedInstanceReachesKernel == [][C8_Step]_vars

\* C8 witness: slot 0 was freed and issued again, and a kernel call has just
\* been made through it on the second mesh.
C8_Witness ==
    /\ call.fn \in HandleFns \ {"free"}
    /\ call.handle = 0
    /\ 0 \in caller[call.v].owned
    /\ \E i \in DOMAIN trace : IsKernel(trace[i]) /\ trace[i].mesh = MeshOf(2)
    /\ ndestroy[MeshOf(1)] = 1

\* C9 (step): init never returns a handle that is active, or that the caller
\* owns, when it is called.
C9_Step ==
    (call'.fn = "init" /\ ret' # -1) =>
        /\ ret' \in Slots
        /\ g_handles[call'.v][ret'].active = 0
        /\ ret' \notin caller[call'.v].owned

\* C9 (state): two distinct active slots of a table never hold the same mesh,
\* nor the same sol object.
C9_NoSharedObject ==
    \A v \in Variants : \A i, j \in ActiveSlots(v) :
        i # j =>
            /\ g_handles[v][i].mesh # g_handles[v][j].mesh
            /\ g_handles[v][i].sol # NULL => g_handles[v][i].sol # g_handles[v][j].sol

C9_HandlesAndInstancesDistinct == [][C9_Step]_vars /\ []C9_NoSharedObject

\* C9 witness: init has just returned 1 while slot 0 is active, both slots
\* holding a mesh and a sol.
C9_Witness ==
    /\ call.fn = "init"
    /\ ret = 1
    /\ ActiveSlots(call.v) = {0, 1}
    /\ g_handles[call.v][0].sol # NULL
    /\ g_handles[call.v][1].sol # NULL

\* the entity gets, with the count each one reports
EntityGets == {"get_vertices", "get_triangles", "get_edges", "get_tetrahedra"}

EntityCount(fn, sz) ==
    IF fn = "get_vertices" THEN sz.np
    ELSE IF fn = "get_triangles" THEN sz.nt
    ELSE IF fn = "get_edges" THEN sz.na
    ELSE sz.ne

\* C10: when an entity get has returned a buffer, that buffer is the only one
\* allocated by the call that is still allocated, it is the first one the
\* call allocated, every other one was freed by the call, and out_count, if
\* not NULL, holds the count of that kind the kernel reports for the mesh.
C10_SuccessKeepsOnlyData ==
    (call.fn \in EntityGets /\ ret # NULL) =>
        LET mesh == g_handles[call.v][call.handle].mesh
            first == Min({i \in DOMAIN trace : IsMalloc(trace[i])})
        IN  /\ Allocated(trace) \cap heap = {ret}
            /\ trace[first].ptr = ret
            /\ Freed(trace) = Allocated(trace) \ {ret}
            /\ Cardinality(Allocated(trace)) >= 3
            /\ outp = (IF call.oc
                       THEN {<<"out_count", EntityCount(call.fn, KSizes(mesh))>>}
                       ELSE {})

\* C10 witness: get_vertices has just returned a buffer and a count.
C10_Witness ==
    /\ call.fn = "get_vertices"
    /\ ret # NULL
    /\ outp = {<<"out_count", MaxCount + 3>>}
    /\ Cardinality(Freed(trace)) = 3

\* a malloc of the trace returned NULL
AllocFailed(tr) == \E i \in DOMAIN tr : IsMalloc(tr[i]) /\ tr[i].ptr = NULL

\* the kernel functions that fill buffers, and the single-element quality
\* functions
BulkKernelFns ==
    {"Get_vertices", "Get_triangles", "Get_edges", "Get_tetrahedra",
     "Get_scalarSols", "Get_tensorSols"}
QualityKernelFns == {"Get_triangleQuality", "Get_tetrahedronQuality"}

\* the calls of a trace to the kernel functions in S
CallsTo(tr, S) == SelectSeq(tr, LAMBDA e : IsKernel(e) /\ e.fn \in S)

\* C11: when a malloc of a buffer get returned NULL, whichever it was, every
\* buffer the call had allocated was freed by the call and none is still
\* allocated, the kernel's bulk get (or quality function) was not called,
\* the return is NULL and out_count, if not NULL, is 0.
C11_AllocationFailureRollsBack ==
    (call.fn \in BufferFns /\ AllocFailed(trace)) =>
        /\ Allocated(trace) \subseteq Freed(trace)
        /\ Allocated(trace) \cap heap = {}
        /\ heap = held
        /\ CallsTo(trace, BulkKernelFns \cup QualityKernelFns) = <<>>
        /\ ret = NULL
        /\ outp = (IF call.oc THEN {<<"out_count", 0>>} ELSE {})

\* C11 witness: get_vertices allocated two buffers, the third malloc returned
\* NULL, out_count was given.
C11_Witness ==
    /\ call.fn = "get_vertices"
    /\ call.oc
    /\ AllocFailed(trace)
    /\ Cardinality(Allocated(trace)) = 2
    /\ ret = NULL

\* C12: when the kernel's bulk get of an entity get or a field get reported
\* failure, every buffer the call allocated, the data buffer included, was
\* freed by the call, the return is NULL and out_count, if not NULL, is 0.
C12_KernelFailureReleasesAll ==
    (/\ call.fn \in BufferFns
     /\ \E i \in DOMAIN trace :
           IsKernel(trace[i]) /\ trace[i].fn \in BulkKernelFns /\ trace[i].res # 1) =>
        /\ Allocated(trace) # {}
        /\ Allocated(trace) \subseteq Freed(trace)
        /\ Allocated(trace) \cap heap = {}
        /\ heap = held
        /\ ret = NULL
        /\ outp = (IF call.oc THEN {<<"out_count", 0>>} ELSE {})

\* C12 witness: Get_tensorSols has just failed in get_tensor_sols.
C12_Witness ==
    /\ call.fn = "get_tensor_sols"
    /\ call.oc
    /\ Len(trace) = 4
    /\ trace[3].fn = "Get_tensorSols"
    /\ trace[3].res = 0
    /\ IsFree(trace[4])

\* the count a buffer get runs over, as the kernel holds it
RequestedCount(fn, v, handle) ==
    LET mesh == g_handles[v][handle].mesh
        sol == g_handles[v][handle].sol
    IN  IF fn \in EntityGets THEN EntityCount(fn, KSizes(mesh))
        ELSE IF fn = "get_qualities" THEN QualityCount(v, KSizes(mesh))
        ELSE KSolSize(sol).np

\* C13: a buffer get or the bulk quality query, on a valid handle whose
\* count of the kind asked for is zero, returns NULL, writes 0 to out_count
\* if not NULL, and does nothing but the size query: no malloc, no bulk get,
\* no quality call.
C13_ZeroCountNoBuffer ==
    (/\ call.fn \in BufferFns
     /\ trace # <<>>
     /\ RequestedCount(call.fn, call.v, call.handle) = 0) =>
        /\ ret = NULL
        /\ outp = (IF call.oc THEN {<<"out_count", 0>>} ELSE {})
        /\ Len(trace) = 1
        /\ trace[1].fn \in {"Get_meshSize", "Get_solSize"}
        /\ heap = held

\* C13 witness: the bulk quality query has just been made on a mesh that has
\* vertices and no element, and the size query succeeded.
C13_Witness ==
    /\ call.fn = "get_qualities"
    /\ call.oc
    /\ trace # <<>>
    /\ trace[1].res = 1
    /\ KSizes(g_handles[call.v][call.handle].mesh).np > 0
    /\ RequestedCount(call.fn, call.v, call.handle) = 0
    /\ ret = NULL

\* event e of a call frees buffer p, obtains it from malloc, or hands it to a
\* kernel function that fills buffers
Touches(e, p) ==
    \/ IsFree(e) /\ e.ptr = p
    \/ IsMalloc(e) /\ e.ptr = p
    \/ IsKernel(e) /\ e.fn \in BulkKernelFns /\ p \in Range(e.args)

\* buffer p, held by the caller, is left alone by the step: still allocated
\* and held, not freed, not allocated again, not given to the kernel to
\* fill, not returned by a buffer get
LeftAlone(p) ==
    /\ p \in heap'
    /\ p \in held'
    /\ \A i \in DOMAIN trace' : ~Touches(trace'[i], p)
    /\ (call'.fn \in BufferFns) => ret' # p

\* C14: a buffer a get returned stays allocated and untouched through every
\* later call (free of a handle, further gets, remesh, init, the setters):
\* no call frees it, writes it or returns it again, except the free_array
\* that is given it.
C14_ReturnedBufferLeftAlone ==
    [][\A p \in held :
          \/ call'.fn = "free_array" /\ trace' = <<FreeEv(p)>>
          \/ LeftAlone(p)]_vars

\* C14 witness: the instance has just been freed while the caller holds two
\* buffers that gets of it returned, both still allocated.
C14_Witness ==
    /\ call.fn = "free"
    /\ ret = 1
    /\ Cardinality(held) = 2
    /\ held \subseteq heap

\* C15: free_array given a buffer the caller holds frees it with one call of
\* free, after which it is neither allocated nor held; given a pointer it
\* was given before, not handed out again since, it calls free on it all the
\* same (a double release, not a no-op); given NULL it calls nothing and
\* the heap is as it was.
C15_FreeArrayReleasesOnce ==
    [][call'.fn = "free_array" =>
          IF call'.ptr = NULL
          THEN trace' = <<>> /\ heap' = heap /\ held' = held
          ELSE /\ trace' = <<FreeEv(call'.ptr)>>
               /\ call'.ptr \notin held'
               /\ (call'.ptr \in held /\ held \subseteq heap) =>
                      heap' = heap \ {call'.ptr}
               /\ (call'.ptr \in gone \ heap) =>
                      \E i \in DOMAIN trace' :
                         IsFree(trace'[i]) /\ trace'[i].ptr \notin heap]_vars

\* C15 witness: free_array has just been given, a second time, a pointer
\* that was not handed out again since it was released.
C15_Witness ==
    /\ call.fn = "free_array"
    /\ call.ptr # NULL
    /\ call.ptr \in gone
    /\ call.ptr \notin heap
    /\ trace = <<FreeEv(call.ptr)>>
    /\ Cardinality(gone) = 1

\* C16: when the kernel holds for the mesh of a valid handle N > 0 vertices
\* whose coordinates are the array V that set_vertices was given (stride * N
\* doubles, stride 2 in mmg2d and 3 in mmg3d and mmgs), a get_vertices that
\* succeeds returns a buffer allocated by the call, of stride * N doubles,
\* holding V, and writes N to out_count.
C16_VerticesRoundTrip ==
    (/\ call.fn = "get_vertices"
     /\ ret # NULL) =>
        LET mesh == g_handles[call.v][call.handle].mesh
            N == KSizes(mesh).np
            stride == IF call.v = "mmg2d" THEN 2 ELSE 3
        IN  (N > 0 /\ KVerts(mesh) = CallerVertices(stride * N)) =>
               /\ ret \in Allocated(trace)
               /\ ret \notin Freed(trace)
               /\ ret \in heap
               /\ DOMAIN mem = {ret}
               /\ mem[ret].bytes = 8 * (stride * N)
               /\ mem[ret].data = CallerVertices(stride * N)
               /\ outp = (IF call.oc THEN {<<"out_count", N>>} ELSE {})

\* C16 witness: get_vertices of mmg3d has just returned the coordinates
\* that set_vertices stored.
C16_Witness ==
    /\ call.fn = "get_vertices"
    /\ call.v = "mmg3d"
    /\ call.oc
    /\ ret # NULL
    /\ KSizes(g_handles[call.v][call.handle].mesh).np = MaxCount + 3
    /\ ret \in DOMAIN mem
    /\ mem[ret].data = CallerVertices(3 * (MaxCount + 3))
    /\ outp = {<<"out_count", MaxCount + 3>>}

\* the counts of a variant by name: what get_mesh_size writes when none of
\* its out-parameters is NULL
CountsByName(v, sz) ==
    IF v = "mmg2d"
    THEN {<<"np", sz.np>>, <<"nt", sz.nt>>, <<"nquad", sz.nquad>>, <<"na", sz.na>>}
    ELSE IF v = "mmgs"
    THEN {<<"np", sz.np>>, <<"nt", sz.nt>>, <<"na", sz.na>>}
    ELSE {<<"np", sz.np>>, <<"ne", sz.ne>>, <<"nprism", sz.nprism>>,
          <<"nt", sz.nt>>, <<"nquad", sz.nquad>>, <<"na", sz.na>>}

\* C17 (state): a set_mesh_size that returned 1 on a handle the caller owns
\* passed the counts to the kernel for the mesh of that handle, and the
\* kernel holds them.
C17_SizeStored ==
    (/\ call.fn = "set_mesh_size"
     /\ call.handle \in caller[call.v].owned
     /\ ret = 1) =>
        /\ Len(trace) = 1
        /\ trace[1].fn = "Set_meshSize"
        /\ trace[1].mesh = caller[call.v].inst[call.handle][1]
        /\ \E sz \in SizeArgs(call.v) :
              /\ CountsByName(call.v, sz) = CountsByName(call.v, KSizes(trace[1].mesh))
              /\ trace[1].args = SizeTuple(call.v, sz)

\* C17 (step): get_mesh_size on a handle the caller owns asks the kernel
\* once for the sizes of the mesh of that handle; when the kernel answers 1
\* it returns 1 and each out-parameter it writes gets the count of that
\* name that the kernel holds, and the counts themselves are left as they
\* were. On a handle that a free returning 1 released and no init has
\* returned since, it returns 0, writes nothing and calls nothing.
C17_Step ==
    call'.fn = "get_mesh_size" =>
        /\ call'.handle \in caller[call'.v].owned =>
              LET mesh == caller[call'.v].inst[call'.handle][1]
              IN  /\ Len(trace') = 1
                  /\ trace'[1].fn = "Get_meshSize"
                  /\ trace'[1].mesh = mesh
                  /\ ret' = trace'[1].res
                  /\ outp' \subseteq CountsByName(call'.v, KSizes(mesh))
                  /\ trace'[1].res # 1 => outp' = {}
                  /\ kmesh' = kmesh
        /\ call'.handle \in caller[call'.v].stale =>
              /\ ret' = 0
              /\ outp' = {}
              /\ trace' = <<>>

C17_SizeRoundTrip == [][C17_Step]_vars /\ []C17_SizeStored

\* C17 witness: get_mesh_size of mmg2d, none of its out-parameters NULL,
\* has just returned 1 and written the counts that set_mesh_size declared.
C17_Witness ==
    /\ call.fn = "get_mesh_size"
    /\ call.v = "mmg2d"
    /\ call.handle \in caller[call.v].owned
    /\ ret = 1
    /\ outp = {<<"np", MaxCount + 3>>, <<"nt", MaxCount + 1>>,
               <<"nquad", 0>>, <<"na", MaxCount>>}

\* C18 (step): remesh called with a handle that is not active returns -1
\* and calls nothing in the kernel; called with an active handle it makes
\* one kernel call, the remeshing function of its variant on the mesh and
\* sol of that slot, and returns the code the kernel answered.
C18_Step ==
    call'.fn = "remesh" =>
        IF NotActive(call'.v, call'.handle)
        THEN ret' = -1 /\ trace' = <<>>
        ELSE /\ Len(trace') = 1
             /\ IsKernel(trace'[1])
             /\ trace'[1].fn = (IF call'.v = "mmg2d" THEN "mmg2dlib"
                                ELSE IF call'.v = "mmg3d" THEN "mmg3dlib"
                                ELSE "mmgslib")
             /\ trace'[1].mesh = g_handles[call'.v][call'.handle].mesh
             /\ trace'[1].sol = g_handles[call'.v][call'.handle].sol
             /\ trace'[1].mesh = caller[call'.v].inst[call'.handle][1]
             /\ ret' = trace'[1].res

C18_RemeshForwardsCode == [][C18_Step]_vars

\* C18 witness: remesh on a valid handle has just returned the kernel's
\* nonzero code.
C18_Witness ==
    /\ call.fn = "remesh"
    /\ call.handle \in caller[call.v].owned
    /\ Len(trace) = 1
    /\ trace[1].res = 2
    /\ ret = 2

QueryFns == {"get_available_handles", "get_max_handles"}

\* C19 (step): a call of get_available_handles or get_max_handles leaves
\* every slot of every table as it was (active flag, mesh, sol), calls
\* nothing in the kernel, allocates and frees nothing, and changes at most
\* the initialised flag of its own variant, from 0 to 1.
C19_Step ==
    call'.fn \in QueryFns =>
        /\ \A w \in Variants : \A i \in Slots :
              /\ g_handles'[w][i].active = g_handles[w][i].active
              /\ g_handles'[w][i].mesh = g_handles[w][i].mesh
              /\ g_handles'[w][i].sol = g_handles[w][i].sol
        /\ \A w \in Variants :
              g_initialized'[w] # g_initialized[w] =>
                  /\ w = call'.v
                  /\ call'.fn = "get_available_handles"
                  /\ g_initialized[w] = 0
                  /\ g_initialized'[w] = 1
        /\ trace' = <<>>
        /\ <<nctor, live, ndestroy, kmesh, ksol, kverts>>' =
              <<nctor, live, ndestroy, kmesh, ksol, kverts>>
        /\ heap' = heap
        /\ outp' = {}

\* C19 (state): what a query returned is a function of the table it left
\* unchanged, so that the same call made again next returns the same value:
\* the number of slots that are not active, and MAX_HANDLES.
C19_Value ==
    /\ call.fn = "get_available_handles" =>
          ret = Cardinality({i \in Slots : g_handles[call.v][i].active = 0})
    /\ call.fn = "get_max_handles" => ret = MAX_HANDLES

C19_QueriesArePure == [][C19_Step]_vars /\ []C19_Value

\* C19 witness: get_available_handles has just returned on a table with a
\* slot in use, which it left in use.
C19_Witness ==
    /\ call.fn = "get_available_handles"
    /\ ActiveSlots(call.v) # {}
    /\ ret = MAX_HANDLES - Cardinality(ActiveSlots(call.v))
    /\ trace = <<>>

\* C20: the bulk quality query on a valid handle whose mesh has n > 0
\* elements, the size query having succeeded, calls malloc once, for n
\* doubles. When malloc fails it returns NULL, writes 0 to out_count if not
\* NULL and makes no quality call. Otherwise it calls the quality function
\* of one element n times on the mesh and sol of the handle, with 1, 2, ...,
\* n in that order, the buffer it returns is the one malloc gave, still
\* allocated, with the result for k at offset k - 1, and out_count is n.
C20_BulkQuality ==
    (/\ call.fn = "get_qualities"
     /\ trace # <<>>
     /\ trace[1].res = 1
     /\ RequestedCount(call.fn, call.v, call.handle) > 0) =>
        LET n == RequestedCount(call.fn, call.v, call.handle)
            mallocs == SelectSeq(trace, IsMalloc)
            quals == CallsTo(trace, QualityKernelFns)
        IN  /\ Len(mallocs) = 1
            /\ mallocs[1].bytes = 8 * n
            /\ Freed(trace) = {}
            /\ IF mallocs[1].ptr = NULL
               THEN /\ ret = NULL
                    /\ outp = (IF call.oc THEN {<<"out_count", 0>>} ELSE {})
                    /\ quals = <<>>
               ELSE /\ Len(quals) = n
                    /\ \A k \in 1 .. n :
                          /\ quals[k].args = <<k>>
                          /\ quals[k].mesh = g_handles[call.v][call.handle].mesh
                          /\ quals[k].sol = g_handles[call.v][call.handle].sol
                          /\ quals[k].res = KQuality(quals[k].mesh, k)
                    /\ ret = mallocs[1].ptr
                    /\ ret \in heap
                    /\ DOMAIN mem = {ret}
                    /\ DOMAIN mem[ret].data = 0 .. (n - 1)
                    /\ \A k \in 1 .. n : mem[ret].data[k - 1] = quals[k].res
                    /\ outp = (IF call.oc THEN {<<"out_count", n>>} ELSE {})

\* C20 witness: the bulk quality query of mmg3d has just returned a buffer
\* with the qualities of more than one tetrahedron.
C20_Witness ==
    /\ call.fn = "get_qualities"
    /\ call.v = "mmg3d"
    /\ call.oc
    /\ ret # NULL
    /\ Len(CallsTo(trace, QualityKernelFns)) = MaxCount + 2
    /\ outp = {<<"out_count", MaxCount + 2>>}
    /\ ret \in DOMAIN mem
    /\ mem[ret].data[1] # mem[ret].data[0]

\* C21 (step): an init that succeeds returns a slot of the table that was
\* inactive when it was called and below which every slot was active: the
\* lowest inactive index.
C21_Step ==
    (call'.fn = "init" /\ ret' # -1) =>
        /\ ret' \in Slots
        /\ g_handles[call'.v][ret'].active = 0
        /\ \A j \in 0 .. (ret' - 1) : g_handles[call'.v][j].active # 0
        /\ g_handles'[call'.v][ret'].active = 1

C21_LowestFreeSlot == [][C21_Step]_vars

\* C21 witness: slot 1 was freed while its neighbours stayed active, and
\* init has just returned 1.
C21_Witness ==
    /\ call.fn = "init"
    /\ ret = 1
    /\ g_handles[call.v][0].active = 1
    /\ g_handles[call.v][2].active = 1
    /\ \E x \in DOMAIN ndestroy : ndestroy[x] = 1

\* C22: while an init is between its scan and its call of the constructor,
\* the slot the scan chose is reserved: the table does not report it free
\* (its active flag is set, the scan would not choose it again, the count
\* of get_available_handles leaves it out).
C22_ChosenSlotReserved ==
    initpc # NoInit =>
        /\ g_handles[initpc.v][initpc.handle].active # 0
        /\ find_free_handle(g_handles[initpc.v]) # initpc.handle
        /\ available(g_handles[initpc.v])
              < MAX_HANDLES - Cardinality(caller[initpc.v].owned)

\* the active slots that hold native object x
HoldersOf(x) ==
    {<<v, i>> \in Variants \X Slots :
        g_handles[v][i].active # 0 /\ x \in {g_handles[v][i].mesh, g_handles[v][i].sol}}

\* C23: whatever the constructor answers, every native object that was
\* allocated and not destroyed is held by exactly one active slot: none is
\* left outside the tables by an init that failed.
C23_NoNativeLeak ==
    \A x \in live : Cardinality(HoldersOf(x)) = 1

\* the entry points that do not call ensure_initialized
NoTableFns == {"get_max_handles", "free_array", "none"}

\* C24 (state): a table that no operation has initialised yet has no active
\* slot and no reference.
C24_ZeroBefore ==
    \A v \in Variants : g_initialized[v] = 0 => g_handles[v] = ZeroTable

\* C24 (step): the initialised flag of a variant is set by the first entry
\* point of that variant that looks at the table, which leaves every slot
\* inactive with null references but the one an init fills, and is never
\* cleared; a slot that is active keeps its entry through every step but
\* the free that is given it.
C24_Step ==
    /\ \A v \in Variants :
          /\ g_initialized[v] = 1 => g_initialized'[v] = 1
          /\ (call'.v = v /\ call'.fn \notin NoTableFns) => g_initialized'[v] = 1
          /\ (g_initialized[v] = 0 /\ g_initialized'[v] = 1) =>
                /\ call'.v = v
                /\ \A i \in Slots :
                      \/ g_handles'[v][i] = ZeroEntry
                      \/ call'.fn = "init" /\ ret' = i
    /\ \A v \in Variants : \A i \in Slots :
          g_handles[v][i].active # 0 =>
              \/ g_handles'[v][i] = g_handles[v][i]
              \/ call'.fn = "free" /\ call'.v = v /\ call'.handle = i /\ ret' = 1

C24_InitialisedOnce == [][C24_Step]_vars /\ []C24_ZeroBefore

\* C24 witness: an entry point other than init and free has just run on a
\* table initialised before, and the slot it was given is still active
\* with its mesh.
C24_Witness ==
    /\ call.fn \in {"get_mesh_size", "set_vertex", "remesh", "get_vertices"}
    /\ g_initialized[call.v] = 1
    /\ call.handle \in Slots
    /\ g_handles[call.v][call.handle].active = 1
    /\ g_handles[call.v][call.handle].mesh # NULL

\* C25 (step): a call of an entry point of one variant leaves the table
\* and the initialised flag of the two other variants as they were: every
\* slot's active flag, mesh and sol, and with them the count of slots
\* available.
C25_Step ==
    call'.fn # "none" =>
        \A w \in Variants \ {call'.v} :
            /\ g_initialized'[w] = g_initialized[w]
            /\ \A i \in Slots :
                  /\ g_handles'[w][i].active = g_handles[w][i].active
                  /\ g_handles'[w][i].mesh = g_handles[w][i].mesh
                  /\ g_handles'[w][i].sol = g_handles[w][i].sol
            /\ Cardinality({i \in Slots : g_handles'[w][i].active = 0})
                  = Cardinality({i \in Slots : g_handles[w][i].active = 0})

\* C25 (state): no native object is held by slots of two variants.
C25_NoSharedObject ==
    \A v \in Variants : \A w \in Variants \ {v} :
        \A i \in ActiveSlots(v) : \A j \in ActiveSlots(w) :
            g_handles[v][i].mesh # g_handles[w][j].mesh

C25_TablesSeparate == [][C25_Step]_vars /\ []C25_NoSharedObject

\* C25 witness: handle 0 has just been freed in mmg3d while it is active in
\* mmg2d, where it stays active.
C25_Witness ==
    /\ call.fn = "free"
    /\ call.v = "mmg3d"
    /\ call.handle = 0
    /\ ret = 1
    /\ g_handles["mmg3d"][0].active = 0
    /\ g_handles["mmg2d"][0].active = 1

\* C26 (step): a call of an entry point other than init and free leaves
\* every slot of every table as it was (active flag, mesh, sol); called
\* with an active handle, every kernel call it makes is handed the mesh
\* and the sol of that slot and of no other (or NULL where the kernel
\* function takes none).
C26_Step ==
    call'.fn \notin {"none", "init", "free"} =>
        /\ \A w \in Variants : \A i \in Slots :
              /\ g_handles'[w][i].active = g_handles[w][i].active
              /\ g_handles'[w][i].mesh = g_handles[w][i].mesh
              /\ g_handles'[w][i].sol = g_handles[w][i].sol
        /\ (call'.fn \in HandleFns /\ ~NotActive(call'.v, call'.handle)) =>
              /\ KernelCalls(trace') # <<>>
              /\ \A i \in DOMAIN trace' :
                    IsKernel(trace'[i]) =>
                        /\ trace'[i].mesh \in {NULL, g_handles[call'.v][call'.handle].mesh}
                        /\ trace'[i].sol \in {NULL, g_handles[call'.v][call'.handle].sol}
                        /\ {trace'[i].mesh, trace'[i].sol} # {NULL}

C26_OnlyOwnInstance == [][C26_Step]_vars

\* C26 witness: with slots 0 and 1 both active, an entry point has just
\* made a kernel call through handle 1 on the mesh of slot 1.
C26_Witness ==
    /\ call.fn \in HandleFns \ {"free"}
    /\ call.handle = 1
    /\ g_handles[call.v][0].active = 1
    /\ g_handles[call.v][1].active = 1
    /\ \E i \in DOMAIN trace :
          IsKernel(trace[i]) /\ trace[i].mesh = g_handles[call.v][1].mesh

\* the kernel primitive behind each entry point that only forwards
ForwardedTo ==
    [set_mesh_size |-> "Set_meshSize", set_vertex |-> "Set_vertex",
     set_vertices |-> "Set_vertices", set_triangle |-> "Set_triangle",
     set_triangles |-> "Set_triangles", set_edge |-> "Set_edge",
     set_edges |-> "Set_edges", set_tetrahedron |-> "Set_tetrahedron",
     set_tetrahedra |-> "Set_tetrahedra", set_iparameter |-> "Set_iparameter",
     set_dparameter |-> "Set_dparameter", set_sol_size |-> "Set_solSize",
     set_scalar_sols |-> "Set_scalarSols", set_tensor_sols |-> "Set_tensorSols",
     load_mesh |-> "loadMesh", save_mesh |-> "saveMesh",
     load_sol |-> "loadSol", save_sol |-> "saveSol"]

\* C27 (step): a single or bulk set, a size declaration, a parameter set, a
\* load or a save, called with an active handle, makes one call of its
\* kernel primitive and no other, hands it the arguments it was given as
\* they are (a refs buffer that is NULL stays NULL), returns what the
\* kernel answered, success or failure, and writes no out-parameter.
C27_Step ==
    (call'.fn \in DOMAIN ForwardedTo /\ ~NotActive(call'.v, call'.handle)) =>
        /\ Len(trace') = 1
        /\ IsKernel(trace'[1])
        /\ trace'[1].fn = ForwardedTo[call'.fn]
        /\ trace'[1].args = call'.args
        /\ ret' = trace'[1].res
        /\ outp' = {}

C27_ForwardedOnce == [][C27_Step]_vars

\* C27 witness: set_triangles has just been refused by the kernel, which
\* was given the data buffer and the NULL refs of the caller once.
C27_Witness ==
    /\ call.fn = "set_triangles"
    /\ ~NotActive(call.v, call.handle)
    /\ call.args = <<DataBuf, NULL>>
    /\ Len(trace) = 1
    /\ trace[1].args = <<DataBuf, NULL>>
    /\ trace[1].res = 0
    /\ ret = 0

\* the buffers each bulk get needs: the data buffer and the side buffers
BuffersOf ==
    [get_vertices |-> 4, get_triangles |-> 3, get_edges |-> 4,
     get_tetrahedra |-> 3, get_scalar_sols |-> 1, get_tensor_sols |-> 1]

\* the positions of the mallocs, of the frees and of the kernel's bulk gets
\* in the trace of the call
MallocsAt == {i \in DOMAIN trace : IsMalloc(trace[i])}
FreesAt == {i \in DOMAIN trace : IsFree(trace[i])}
BulkCallsAt == {i \in DOMAIN trace : IsKernel(trace[i]) /\ trace[i].fn \in BulkKernelFns}

\* C28: in a bulk get that called the kernel's bulk get, that call is the
\* only one; every buffer the entry point needs was allocated before it,
\* none of the mallocs returned NULL, and the kernel was handed exactly
\* those buffers; every free of the call, the side buffers' among them,
\* comes after the kernel's call.
C28_KernelBetweenAllocAndRelease ==
    (call.fn \in DOMAIN BuffersOf /\ BulkCallsAt # {}) =>
        /\ Cardinality(BulkCallsAt) = 1
        /\ Cardinality(MallocsAt) = BuffersOf[call.fn]
        /\ \A k \in BulkCallsAt :
              /\ \A i \in MallocsAt : i < k /\ trace[i].ptr # NULL
              /\ Range(trace[k].args) = {trace[i].ptr : i \in MallocsAt}
              /\ Cardinality(Range(trace[k].args)) = BuffersOf[call.fn]
              /\ \A i \in FreesAt : i > k
              /\ call.fn \notin {"get_scalar_sols", "get_tensor_sols"} =>
                    Tail(trace[k].args) =
                        [j \in 1 .. BuffersOf[call.fn] - 1 |-> trace[k + j].ptr]

\* C28 witness: get_vertices of mmg3d has returned its buffer; the three
\* side buffers were freed after the kernel's call.
C28_Witness ==
    /\ call.fn = "get_vertices"
    /\ call.v = "mmg3d"
    /\ ret # NULL
    /\ Cardinality(BulkCallsAt) = 1
    /\ Cardinality(MallocsAt) = 4
    /\ Cardinality(FreesAt) = 3

\* what a caller can tell of a run of a bulk get on heap H: the pointer
\* returned, the count for out_count, the calls of the kernel's bulk get,
\* the buffers allocated when it returns
Observed(run, H) ==
    [ret |-> run.ret, count |-> run.count,
     calls |-> Len(CallsTo(run.trace, BulkKernelFns)),
     live |-> HeapAfter(H, run.trace)]

\* C29: on the heap as it is, for every set of failing mallocs, every
\* answer of the size query and of the kernel's bulk get, every count and
\* both numbers of buffers, the bulk get of mmg3d (every side buffer
\* allocated, then tested together) and the bulk gets of mmg2d and mmgs
\* (stop at the first failure) return the same pointer and the same count,
\* call the kernel's bulk get the same number of times and leave the same
\* buffers allocated.
C29_StrategiesEquivalent ==
    \A nb \in {3, 4} : \A F \in SUBSET (1 .. nb) :
    \A rs \in {0, 1} : \A r \in {0, 1} : \A n \in 0 .. MaxCount :
        LET sizes == [i \in 1 .. nb |-> Bytes(1, n, 4)]
            run(v) == BulkGetRun(v, NULL, "Get_triangles", n, sizes, heap, F, rs, r)
        IN  /\ Observed(run("mmg3d"), heap) = Observed(run("mmg2d"), heap)
            /\ Observed(run("mmg3d"), heap) = Observed(run("mmgs"), heap)

\* C29 witness: get_vertices of mmg3d went on allocating after a side
\* buffer had failed, which the bulk gets of mmg2d and mmgs never do, and
\* returned NULL with every buffer of the call freed, another buffer
\* being held.
C29_Witness ==
    /\ call.fn = "get_vertices"
    /\ call.v = "mmg3d"
    /\ \E i \in MallocsAt : \E j \in MallocsAt :
          i < j /\ trace[i].ptr = NULL /\ trace[j].ptr # NULL
    /\ ret = NULL
    /\ BulkCallsAt = {}
    /\ held # {}
    /\ heap = held

\* the fields of a solution by the name of the out-parameter of get_sol_size
FieldByName(ss) ==
    {<<"typEntity", ss.typEntity>>, <<"np", ss.np>>, <<"typSol", ss.typSol>>}

\* the out-parameters written by the call
Written(out) == {e[1] : e \in out}

\* C30 (step): get_mesh_size and get_sol_size called with a handle that is
\* not active return 0, call nothing and write nothing; called with an
\* active handle they return what the kernel's size query answered; when
\* that is not 1 no out-parameter is written; when it is 1 every
\* out-parameter that is not NULL is written, no other, each with the value
\* the kernel holds under that name for the mesh or sol of the slot.
C30_Step ==
    call'.fn \in {"get_mesh_size", "get_sol_size"} =>
        IF NotActive(call'.v, call'.handle)
        THEN ret' = 0 /\ outp' = {} /\ trace' = <<>>
        ELSE LET mesh == g_handles[call'.v][call'.handle].mesh
                 sol == g_handles[call'.v][call'.handle].sol
                 kernel == IF call'.fn = "get_mesh_size"
                           THEN CountsByName(call'.v, KSizes(mesh))
                           ELSE FieldByName(KSolSize(sol))
             IN  /\ Len(trace') = 1
                 /\ ret' = trace'[1].res
                 /\ trace'[1].res # 1 => outp' = {}
                 /\ trace'[1].res = 1 =>
                       /\ outp' \subseteq kernel
                       /\ Written(outp') = call'.args \cap Written(kernel)

C30_OutsOnlyOnSuccess == [][C30_Step]_vars

\* C30 witness: get_sol_size, np its only out-parameter that is not NULL,
\* has returned 1 and written np alone.
C30_Witness ==
    /\ call.fn = "get_sol_size"
    /\ ~NotActive(call.v, call.handle)
    /\ call.args = {"np"}
    /\ ret = 1
    /\ outp = {<<"np", KSolSize(g_handles[call.v][call.handle].sol).np>>}

\* MMG5_Scalar and MMG5_Tensor, by the getter that returns fields of the type
TypeReturned == [get_scalar_sols |-> 1, get_tensor_sols |-> 3]

\* the kernel's getters of field values
FieldKernelFns == {"Get_scalarSols", "Get_tensorSols"}

\* C31: get_scalar_sols and get_tensor_sols on an active handle whose field
\* was declared with size 0, or with a type other than the one the getter
\* returns (1 for scalar, 3 for tensor), return NULL, write 0 to out_count
\* if it is not NULL, make no malloc and no call of the kernel's field
\* getter and leave the heap as the caller holds it; when they return a
\* buffer, out_count gets the number of vertices declared, whatever the
\* number of doubles per vertex in the buffer.
C31_FieldSizeAndType ==
    (call.fn \in DOMAIN TypeReturned /\ trace # <<>>) =>
        LET ss == KSolSize(g_handles[call.v][call.handle].sol)
        IN  /\ (ss.np = 0 \/ ss.typSol # TypeReturned[call.fn]) =>
                  /\ ret = NULL
                  /\ outp = (IF call.oc THEN {<<"out_count", 0>>} ELSE {})
                  /\ MallocsAt = {}
                  /\ CallsTo(trace, FieldKernelFns) = <<>>
                  /\ heap = held
            /\ ret # NULL =>
                  /\ outp = (IF call.oc THEN {<<"out_count", ss.np>>} ELSE {})
                  /\ ss.typSol = TypeReturned[call.fn]
                  /\ ss.np > 0

\* C31 witness: get_tensor_sols was called on a scalar field that has
\* vertices; the size query answered 1 and NULL was returned with count 0.
C31_Witness ==
    /\ call.fn = "get_tensor_sols"
    /\ call.oc
    /\ Len(trace) = 1
    /\ trace[1].res = 1
    /\ KSolSize(g_handles[call.v][call.handle].sol).typSol = 1
    /\ KSolSize(g_handles[call.v][call.handle].sol).np > 0
    /\ ret = NULL
    /\ outp = {<<"out_count", 0>>}

\* every slot of the table of v is active
TableFull(v) ==
    g_initialized[v] = 1 /\ \A i \in 0 .. (MAX_HANDLES - 1) : g_handles[v][i].active = 1

\* C32 (step): free called with an active handle makes the one destruction
\* call for the mesh and sol of the slot, returns 1 and leaves the slot
\* inactive with no mesh and no sol, whether the destruction answered 1 or
\* not; init called when every slot is active returns -1, calls nothing in
\* the kernel and creates no native object.
C32_Step ==
    /\ (call'.fn = "free" /\ ~NotActive(call'.v, call'.handle)) =>
          /\ Len(trace') = 1
          /\ trace'[1].fn = "Free_all"
          /\ trace'[1].mesh = g_handles[call'.v][call'.handle].mesh
          /\ trace'[1].sol = g_handles[call'.v][call'.handle].sol
          /\ ret' = 1
          /\ g_handles'[call'.v][call'.handle] = [mesh |-> NULL, sol |-> NULL, active |-> 0]
          /\ \A i \in (0 .. (MAX_HANDLES - 1)) \ {call'.handle} :
                g_handles'[call'.v][i] = g_handles[call'.v][i]
    /\ (call'.fn = "init" /\ TableFull(call'.v)) =>
          /\ ret' = -1
          /\ trace' = <<>>
          /\ nctor' = nctor
          /\ live' = live
          /\ g_handles' = g_handles

C32_FreeAlwaysClears == [][C32_Step]_vars

\* C32 witness: the destruction answered 0; free returned 1 and the slot is
\* inactive.
C32_Witness ==
    /\ call.fn = "free"
    /\ Len(trace) = 1
    /\ trace[1].fn = "Free_all"
    /\ trace[1].res = 0
    /\ ret = 1
    /\ g_handles[call.v][call.handle].active = 0

\* C33: the size handed to malloc for a buffer of n entities, stride
\* elements each, is the product stride * n * sizeof(element), so that the
\* buffer holds the stride * n elements the kernel writes (sizes in 4-byte
\* words, the product stated by division).
C33_SizeIsProduct ==
    \A k \in DOMAIN trace :
        (IsMalloc(trace[k]) /\ "words" \in DOMAIN trace[k]) =>
            LET e == trace[k]
                per == e.stride * (e.esize \div 4)
            IN  /\ e.words % per = 0
                /\ e.words \div per = e.n

\* the last event of the trace of a bulk quality query that went through
\* its loop
LoopEnd == trace[Len(trace)]

\* C34: a call in progress returns: the scans of init and of
\* get_available_handles test at most 64 slots, and the loop of a bulk
\* quality query that has returned a buffer made as many iterations as the
\* count n the kernel reported, its counter never overflowing, for every n
\* up to the largest int.
C34_EveryCallReturns ==
    /\ InProgress ~> ~InProgress
    /\ [](InProgress /\ call.pc = "scan" => call.args[1] <= MAX_HANDLES)
    /\ []((~InProgress /\ call.fn = "get_qualities" /\ ret # NULL) =>
            /\ LoopEnd.ev = "loop"
            /\ LoopEnd.iters = LoopCount
            /\ ~LoopEnd.over)

=============================================================================
